---------------------------- MODULE Spec2Model ----------------------------
(***************************************************************************)
(* A model of the inaccu6502 CPU core (src/inaccu6502/src/cpu.rs and       *)
(* cpu/addressing_modes.rs) running against the flat 64 KiB RAM bus of the *)
(* functional-test host (src/inaccu6502-test/src/main.rs).                 *)
(*                                                                         *)
(* The Rust routines take `&mut self` and `&mut memory`; here each routine *)
(* is an operator from a machine record (the Cpu fields, the RAM and what  *)
(* the routine has done to the bus so far) to the machine record after it. *)
(* One CPU step is one action.                                             *)
(*                                                                         *)
(* The second part models the devices of the NES build: the PPU           *)
(* (src/inaccunes/src/system/ppu.rs), the cartridge, the controllers and   *)
(* the CPU bus that reaches them, and the renderer's vblank calls and      *)
(* scanlines (src/inaccunes/src/system.rs).  One access of the CPU, one    *)
(* key event, one call or step of the renderer is one action.              *)
(***************************************************************************)
EXTENDS Integers, Sequences, FiniteSets, TLC

VARIABLES
    a,               \* Cpu.a, the accumulator
    x,               \* Cpu.x
    y,               \* Cpu.y
    s,               \* Cpu.s, the stack pointer
    p,               \* Cpu.p, the status register
    pc,              \* Cpu.pc, the program counter
    ram,             \* RAMputer.ram, as the bytes that differ from 0
    panicked,        \* "none", or why the process has aborted
    panic_message,   \* the values that the panic message was formatted from
    overflow_checks, \* the build's integer-overflow checks: "on", "off", or
                     \* "either" while no overflow has happened yet
    overridden,      \* whether a set_* register override has been used
    trace,           \* what the host's trace log holds: per step, the Cpu
                     \* fields and RAM before it, the opcode it fetched and
                     \* the bus writes it made
    ppu,             \* Devices.ppu, the PPU fields
    cartridge,       \* Devices.cartridge: mirroring type, PRG and CHR ROM
    apu,             \* Devices.apu, as the bytes that differ from 0
    controllers,     \* Devices.controllers
    driver,          \* the calls the PPU's callers have yet to make
    ppu_trace        \* per call made: the call, the PPU fields before it,
                     \* the value returned and the levels it handed to
                     \* Cpu::set_nmi_signal

vars == <<a, x, y, s, p, pc, ram, panicked, panic_message, overflow_checks,
          overridden, trace,
          ppu, cartridge, apu, controllers, driver, ppu_trace>>

-----------------------------------------------------------------------------
(* Bounds of the model. *)

\* The host loop makes at most this many Cpu::step calls.
MaxSteps == 4

\* Length of the instruction sequences run from construction and reset.
MaxProgLen == 3

\* Length of the freely chosen runs of calls made to the PPU.
MaxPpuOps == 3

\* Length of the runs of controller reads that follow a strobe.
MaxPadReads == 10

\* CHR chunks of the cartridge (header byte 5).
ChrChunks == 1

\* PRG chunks of the cartridge (header byte 4).
PrgChunks == 1

-----------------------------------------------------------------------------
(* Constants of cpu.rs. *)

STACK_BASE == \h0100
RESET_VECTOR == \hFFFC
BYTE_SIGN_BIT == \h80
BYTE_CARRIED_BIT == \h100

STATUS_C == \h01
STATUS_Z == \h02
STATUS_I == \h04
STATUS_D == \h08
STATUS_B == \h10
STATUS_1 == \h20
STATUS_V == \h40
STATUS_N == \h80

Byte == 0 .. 255

\* `let val = ...;` followed by the code F that uses val.
With(val, F(_)) == F(val)

-----------------------------------------------------------------------------
(* u8 / u16 arithmetic and bit operations. *)

RECURSIVE BitAndN(_, _, _)
BitAndN(u, v, n) ==
    IF n = 0 \/ u = 0 \/ v = 0 THEN 0
    ELSE (IF u % 2 = 1 /\ v % 2 = 1 THEN 1 ELSE 0)
         + 2 * BitAndN(u \div 2, v \div 2, n - 1)

RECURSIVE BitOrN(_, _, _)
BitOrN(u, v, n) ==
    IF n = 0 \/ (u = 0 /\ v = 0) THEN 0
    ELSE (IF u % 2 = 1 \/ v % 2 = 1 THEN 1 ELSE 0)
         + 2 * BitOrN(u \div 2, v \div 2, n - 1)

RECURSIVE BitXorN(_, _, _)
BitXorN(u, v, n) ==
    IF n = 0 \/ (u = 0 /\ v = 0) THEN 0
    ELSE (IF (u % 2) # (v % 2) THEN 1 ELSE 0)
         + 2 * BitXorN(u \div 2, v \div 2, n - 1)

\* `&`, `|`, `^` on values of up to 16 bits.
BitAnd(u, v) == BitAndN(u, v, 16)
BitOr(u, v) == BitOrN(u, v, 16)
\* A variant of BitXor that is `|` (C2 tells it from the code).
BitXorAsOr(u, v) == BitOrN(u, v, 16)
BitXor(u, v) == BitXorN(u, v, 16)

\* u8::wrapping_add / wrapping_sub, u16::wrapping_add.
wrapping_add_u8(u, v) == (u + v) % 256
wrapping_sub_u8(u, v) == (u - v + 256) % 256
wrapping_add_u16(u, v) == (u + v) % 65536

\* A variant of sign_extend that zero-extends (C6 tells it from the code).
zero_extend(b) == b

\* `b as i8 as u16`: sign extension of a byte to 16 bits.
sign_extend(b) == IF b >= 128 THEN b + \hFF00 ELSE b

\* u16::from_le_bytes and u16::to_le_bytes.
from_le_bytes(lo, hi) == lo + 256 * hi
low_byte(w) == w % 256
high_byte(w) == w \div 256

clear_bit(input, bit) == BitAnd(input, 255 - bit)
set_bit(input, bit) == BitOr(input, bit)
assign_bit(input, bit, whether) ==
    IF whether THEN set_bit(input, bit) ELSE clear_bit(input, bit)
is_bit_set(input, bit) == BitAnd(input, bit) = bit

-----------------------------------------------------------------------------
(* The bus: RAMputer, a flat 64 KiB RAM that starts as zeroes.  `ram` holds *)
(* the bytes that have been loaded or written; every other byte reads 0.   *)

read_byte(mem, address) ==
    IF address \in DOMAIN mem THEN mem[address] ELSE 0

write_byte(mem, address, data) ==
    [k \in DOMAIN mem \cup {address} |->
        IF k = address THEN data ELSE mem[k]]

\* memory.write_byte as the CPU routines call it: the RAM changes and the
\* write is traced.
bus_write(m, address, data) ==
    [m EXCEPT !.ram = write_byte(m.ram, address, data),
              !.writes = Append(m.writes, <<address, data>>)]

-----------------------------------------------------------------------------
(* Cpu. *)

\* Cpu::new: every register is 0xFF.
new == [a |-> 255, x |-> 255, y |-> 255, s |-> 255, p |-> 255, pc |-> 255]

\* Cpu::reset: PC from the little-endian vector at 0xFFFC/0xFFFD.
reset(cpu, mem) ==
    [cpu EXCEPT !.pc = from_le_bytes(read_byte(mem, RESET_VECTOR),
                                     read_byte(mem, RESET_VECTOR + 1))]

\* The register overrides (feature "override-registers").
set_pc(cpu, nu) == [cpu EXCEPT !.pc = nu]
set_a(cpu, nu) == [cpu EXCEPT !.a = nu]
set_x(cpu, nu) == [cpu EXCEPT !.x = nu]
set_y(cpu, nu) == [cpu EXCEPT !.y = nu]
set_s(cpu, nu) == [cpu EXCEPT !.s = nu]
set_p(cpu, nu) == [cpu EXCEPT !.p = nu]

\* `self.pc += 1` and `destination + 1`: a plain u16 addition.  When it
\* overflows, a build with overflow checks panics and a build without wraps.
add_one_u16(m, w) ==
    IF w + 1 <= 65535 THEN [cpu |-> m, value |-> w + 1]
    ELSE IF m.checks
         THEN [cpu |-> [m EXCEPT !.panicked = "overflow", !.overflowed = TRUE],
               value |-> w]
         ELSE [cpu |-> [m EXCEPT !.overflowed = TRUE], value |-> 0]

read_pc_and_post_inc(m) ==
    With(add_one_u16(m, m.pc), LAMBDA inc :
        [cpu |-> [inc.cpu EXCEPT !.pc = inc.value],
         value |-> read_byte(m.ram, m.pc)])

push_byte(m, byte) ==
    LET destination == m.s + STACK_BASE
    IN [bus_write(m, destination, byte) EXCEPT !.s = wrapping_sub_u8(m.s, 1)]

\* A variant of pop_byte that reads before it moves the pointer (C8 tells it
\* from the code).
pop_byte_then_increment(m) ==
    [cpu |-> [m EXCEPT !.s = wrapping_add_u8(m.s, 1)],
     value |-> read_byte(m.ram, m.s + STACK_BASE)]

pop_byte(m) ==
    LET s1 == wrapping_add_u8(m.s, 1)
        destination == s1 + STACK_BASE
    IN [cpu |-> [m EXCEPT !.s = s1], value |-> read_byte(m.ram, destination)]

\* A variant of assign_status_nz_for_result that leaves N alone (C3 tells it
\* from the code).
assign_status_z_for_result(m, result) ==
    [m EXCEPT !.p = assign_bit(m.p, STATUS_Z, result = 0)]

assign_status_nz_for_result(m, result) ==
    LET p1 == assign_bit(m.p, STATUS_Z, result = 0)
    IN [m EXCEPT !.p = assign_bit(p1, STATUS_N, is_bit_set(result, BYTE_SIGN_BIT))]

\* A variant of assign_status_cnz_for_result that takes the carry from bit 7
\* of the sum (C1 tells it from the code).
assign_status_cnz_from_sign_bit(m, result) ==
    [cpu |-> assign_status_nz_for_result(
                [m EXCEPT !.p = assign_bit(m.p, STATUS_C,
                                           is_bit_set(result, BYTE_SIGN_BIT))],
                result % 256),
     value |-> result % 256]

\* A variant of assign_status_cnz_for_result whose carry is a borrow flag, set
\* when the sum has no bit 8 (C4 tells it from the code).
assign_status_bnz_for_result(m, result) ==
    [cpu |-> assign_status_nz_for_result(
                [m EXCEPT !.p = assign_bit(m.p, STATUS_C,
                                           ~is_bit_set(result, BYTE_CARRIED_BIT))],
                result % 256),
     value |-> result % 256]

\* Returns the result as a byte (`result as u8`).
assign_status_cnz_for_result(m, result) ==
    [cpu |-> assign_status_nz_for_result(
                [m EXCEPT !.p = assign_bit(m.p, STATUS_C,
                                           is_bit_set(result, BYTE_CARRIED_BIT))],
                result % 256),
     value |-> result % 256]

-----------------------------------------------------------------------------
(* Addressing modes (cpu/addressing_modes.rs).  `new` fetches the operand   *)
(* bytes and yields the mode value: an immediate byte, an address, or a    *)
(* register name.                                                          *)

Immediate_new(m) ==
    With(read_pc_and_post_inc(m), LAMBDA f :
        [cpu |-> f.cpu, am |-> [kind |-> "Immediate", value |-> f.value]])

ZeroPage_new(m) ==
    With(read_pc_and_post_inc(m), LAMBDA f :
        [cpu |-> f.cpu, am |-> [kind |-> "Address", address |-> f.value]])

ZeroPageXIndexed_new(m) ==
    With(read_pc_and_post_inc(m), LAMBDA f :
        [cpu |-> f.cpu,
         am |-> [kind |-> "Address",
                 address |-> wrapping_add_u8(f.value, f.cpu.x)]])

ZeroPageYIndexed_new(m) ==
    With(read_pc_and_post_inc(m), LAMBDA f :
        [cpu |-> f.cpu,
         am |-> [kind |-> "Address",
                 address |-> wrapping_add_u8(f.value, f.cpu.y)]])

\* A variant of ZeroPageXIndexedIndirect_new that reads the high byte of the
\* address from the zero page also when the low byte is at 0x00FF.
ZeroPageXIndexedIndirect_new_in_zero_page(m) ==
    With(read_pc_and_post_inc(m), LAMBDA f :
    With(wrapping_add_u8(f.value, f.cpu.x), LAMBDA address_of_address :
        [cpu |-> f.cpu,
         am |-> [kind |-> "Address",
                 address |->
                    from_le_bytes(
                        read_byte(f.cpu.ram, address_of_address),
                        read_byte(f.cpu.ram,
                                  wrapping_add_u8(address_of_address, 1)))]]))

\* address_of_address is a u16 here, so its wrapping_add(1) does not wrap at
\* the end of the zero page.
ZeroPageXIndexedIndirect_new(m) ==
    With(read_pc_and_post_inc(m), LAMBDA f :
    With(wrapping_add_u8(f.value, f.cpu.x), LAMBDA address_of_address :
        LET address_low == read_byte(f.cpu.ram, address_of_address)
            address_high ==
                read_byte(f.cpu.ram, wrapping_add_u16(address_of_address, 1))
        IN [cpu |-> f.cpu,
            am |-> [kind |-> "Address",
                    address |-> from_le_bytes(address_low, address_high)]]))

ZeroPageIndirectYIndexed_new(m) ==
    With(read_pc_and_post_inc(m), LAMBDA f :
        LET address_of_address == f.value
            base_low == read_byte(f.cpu.ram, address_of_address)
            base_high == read_byte(f.cpu.ram, address_of_address + 1)
            base == from_le_bytes(base_low, base_high)
        IN [cpu |-> f.cpu,
            am |-> [kind |-> "Address",
                    address |-> wrapping_add_u16(base, f.cpu.y)]])

Absolute_new(m) ==
    With(read_pc_and_post_inc(m), LAMBDA f1 :
    With(read_pc_and_post_inc(f1.cpu), LAMBDA f2 :
        [cpu |-> f2.cpu,
         am |-> [kind |-> "Address",
                 address |-> from_le_bytes(f1.value, f2.value)]]))

AbsoluteXIndexed_new(m) ==
    With(read_pc_and_post_inc(m), LAMBDA f1 :
    With(read_pc_and_post_inc(f1.cpu), LAMBDA f2 :
        LET address == from_le_bytes(f1.value, f2.value)
        IN [cpu |-> f2.cpu,
            am |-> [kind |-> "Address",
                    address |-> wrapping_add_u16(address, f2.cpu.x)]]))

AbsoluteYIndexed_new(m) ==
    With(read_pc_and_post_inc(m), LAMBDA f1 :
    With(read_pc_and_post_inc(f1.cpu), LAMBDA f2 :
        LET address == from_le_bytes(f1.value, f2.value)
        IN [cpu |-> f2.cpu,
            am |-> [kind |-> "Address",
                    address |-> wrapping_add_u16(address, f2.cpu.y)]]))

\* register_mode!: RegisterA, RegisterX, RegisterY fetch nothing.
Register_new(m, name) == [cpu |-> m, am |-> [kind |-> name]]

\* AM::new for the mode type named `mode`.
am_new(mode, m) ==
    CASE mode = "Immediate" -> Immediate_new(m)
      [] mode = "ZeroPage" -> ZeroPage_new(m)
      [] mode = "ZeroPageXIndexed" -> ZeroPageXIndexed_new(m)
      [] mode = "ZeroPageYIndexed" -> ZeroPageYIndexed_new(m)
      [] mode = "ZeroPageXIndexedIndirect" -> ZeroPageXIndexedIndirect_new(m)
      [] mode = "ZeroPageIndirectYIndexed" -> ZeroPageIndirectYIndexed_new(m)
      [] mode = "Absolute" -> Absolute_new(m)
      [] mode = "AbsoluteXIndexed" -> AbsoluteXIndexed_new(m)
      [] mode = "AbsoluteYIndexed" -> AbsoluteYIndexed_new(m)
      [] mode \in {"RegisterA", "RegisterX", "RegisterY"} -> Register_new(m, mode)

get_value(am, m) ==
    CASE am.kind = "Immediate" -> am.value
      [] am.kind = "Address" -> read_byte(m.ram, am.address)
      [] am.kind = "RegisterA" -> m.a
      [] am.kind = "RegisterX" -> m.x
      [] am.kind = "RegisterY" -> m.y

put_value(am, m, value) ==
    CASE am.kind = "Address" -> bus_write(m, am.address, value)
      [] am.kind = "RegisterA" -> [m EXCEPT !.a = value]
      [] am.kind = "RegisterX" -> [m EXCEPT !.x = value]
      [] am.kind = "RegisterY" -> [m EXCEPT !.y = value]

-----------------------------------------------------------------------------
(* The operation routines of Cpu.  In each, n is `AM::new(self, memory)`:   *)
(* n.am the mode value and n.cpu the machine once the operands are fetched. *)

decrement(m, mode) ==
    With(am_new(mode, m), LAMBDA n :
    With(wrapping_sub_u8(get_value(n.am, n.cpu), 1), LAMBDA value :
        assign_status_nz_for_result(put_value(n.am, n.cpu, value), value)))

increment(m, mode) ==
    With(am_new(mode, m), LAMBDA n :
    With(wrapping_add_u8(get_value(n.am, n.cpu), 1), LAMBDA value :
        assign_status_nz_for_result(put_value(n.am, n.cpu, value), value)))

\* A variant of load that leaves the flags as they are.
load_keeping_flags(m, target, mode) ==
    With(am_new(mode, m), LAMBDA n :
    With(get_value(n.am, n.cpu), LAMBDA value :
    With(am_new(target, n.cpu), LAMBDA t :
        put_value(t.am, t.cpu, value))))

load(m, target, mode) ==
    With(am_new(mode, m), LAMBDA n :
    With(get_value(n.am, n.cpu), LAMBDA value :
    With(am_new(target, n.cpu), LAMBDA t :
        assign_status_nz_for_result(put_value(t.am, t.cpu, value), value))))

store(m, source, mode) ==
    With(am_new(source, m), LAMBDA src :
    With(get_value(src.am, src.cpu), LAMBDA value :
    With(am_new(mode, src.cpu), LAMBDA n :
        put_value(n.am, n.cpu, value))))

or_accumulator(m, mode) ==
    With(am_new(mode, m), LAMBDA n :
    With(BitOr(n.cpu.a, get_value(n.am, n.cpu)), LAMBDA r :
        assign_status_nz_for_result([n.cpu EXCEPT !.a = r], r)))

and_accumulator(m, mode) ==
    With(am_new(mode, m), LAMBDA n :
    With(BitAnd(n.cpu.a, get_value(n.am, n.cpu)), LAMBDA r :
        assign_status_nz_for_result([n.cpu EXCEPT !.a = r], r)))

xor_accumulator(m, mode) ==
    With(am_new(mode, m), LAMBDA n :
    With(BitXor(n.cpu.a, get_value(n.am, n.cpu)), LAMBDA r :
        assign_status_nz_for_result([n.cpu EXCEPT !.a = r], r)))

\* A variant of bit_test whose Z tells whether A AND M is 0.
bit_test_and(m, mode) ==
    With(am_new(mode, m), LAMBDA n :
    With(get_value(n.am, n.cpu), LAMBDA value :
    With(assign_bit(n.cpu.p, STATUS_Z, BitAnd(value, n.cpu.a) = 0),
         LAMBDA p1 :
        [n.cpu EXCEPT !.p = BitOr(BitAnd(p1, \h3F), BitAnd(value, \hC0))])))

bit_test(m, mode) ==
    With(am_new(mode, m), LAMBDA n :
    With(get_value(n.am, n.cpu), LAMBDA value :
    With(assign_bit(n.cpu.p, STATUS_Z, value = n.cpu.a), LAMBDA p1 :
        [n.cpu EXCEPT !.p = BitOr(BitAnd(p1, \h3F), BitAnd(value, \hC0))])))

perform_alu_operation(m, reg, mode, use_carry, discard_result, subtraction) ==
    With(am_new(mode, m), LAMBDA n :
    With(am_new(reg, n.cpu), LAMBDA r :
    With(get_value(r.am, r.cpu), LAMBDA thing1 :
    With(IF subtraction
         THEN BitXor(get_value(n.am, r.cpu), \hFF)
         ELSE get_value(n.am, r.cpu), LAMBDA thing2 :
    With(IF is_bit_set(r.cpu.p, STATUS_C) /\ use_carry THEN 1
         ELSE IF ~use_carry /\ subtraction THEN 1
         ELSE 0, LAMBDA thing3 :
    With(assign_status_cnz_for_result(r.cpu, thing1 + thing2 + thing3), LAMBDA c :
        LET result == c.value
            overflowed ==
                BitAnd(BitAnd(BitXor(thing1, result), BitXor(thing2, result)),
                       \h80) # 0
        IN With([c.cpu EXCEPT !.p = assign_bit(c.cpu.p, STATUS_V, overflowed)],
                LAMBDA m1 :
                  IF ~discard_result THEN put_value(r.am, m1, result) ELSE m1)))))))

arithmetic_shift_left(m, mode) ==
    With(am_new(mode, m), LAMBDA n :
    With(get_value(n.am, n.cpu), LAMBDA value :
    With((value * 2) % 256, LAMBDA shifted :
    With(put_value(n.am, assign_status_nz_for_result(n.cpu, shifted), shifted),
         LAMBDA m1 :
           [m1 EXCEPT !.p = assign_bit(m1.p, STATUS_C, is_bit_set(value, \h80))]))))

logical_shift_right(m, mode) ==
    With(am_new(mode, m), LAMBDA n :
    With(get_value(n.am, n.cpu), LAMBDA value :
    With(value \div 2, LAMBDA shifted :
    With(put_value(n.am, assign_status_nz_for_result(n.cpu, shifted), shifted),
         LAMBDA m1 :
           [m1 EXCEPT !.p = assign_bit(m1.p, STATUS_C, is_bit_set(value, \h01))]))))

rotate_left(m, mode) ==
    With(am_new(mode, m), LAMBDA n :
    With(get_value(n.am, n.cpu), LAMBDA value :
    With(IF is_bit_set(n.cpu.p, STATUS_C)
         THEN BitOr((value * 2) % 256, \h01)
         ELSE (value * 2) % 256, LAMBDA rotated :
    With(put_value(n.am, assign_status_nz_for_result(n.cpu, rotated), rotated),
         LAMBDA m1 :
           [m1 EXCEPT !.p = assign_bit(m1.p, STATUS_C, is_bit_set(value, \h80))]))))

rotate_right(m, mode) ==
    With(am_new(mode, m), LAMBDA n :
    With(get_value(n.am, n.cpu), LAMBDA value :
    With(IF is_bit_set(n.cpu.p, STATUS_C)
         THEN BitOr(value \div 2, \h80)
         ELSE value \div 2, LAMBDA rotated :
    With(put_value(n.am, assign_status_nz_for_result(n.cpu, rotated), rotated),
         LAMBDA m1 :
           [m1 EXCEPT !.p = assign_bit(m1.p, STATUS_C, is_bit_set(value, \h01))]))))

\* A variant of handle_branch_operation that adds the offset to the address
\* of the operand (C5 tells it from the code).
handle_branch_from_operand(m, should_branch) ==
    With(read_pc_and_post_inc(m), LAMBDA f :
        IF should_branch
        THEN [f.cpu EXCEPT !.pc = wrapping_add_u16(m.pc, sign_extend(f.value))]
        ELSE f.cpu)

handle_branch_operation(m, should_branch) ==
    With(read_pc_and_post_inc(m), LAMBDA f :
        LET offset == sign_extend(f.value)
            potential_destination == wrapping_add_u16(f.cpu.pc, offset)
        IN IF should_branch THEN [f.cpu EXCEPT !.pc = potential_destination]
           ELSE f.cpu)

-----------------------------------------------------------------------------
(* Cpu::step. *)

\* The arms of the match in Cpu::step: opcode -> routine and its type or
\* value arguments.  An opcode outside the domain takes the `x => panic!` arm.
instructions ==
       \h00 :> <<"brk">>
    @@ \h01 :> <<"or_accumulator", "ZeroPageXIndexedIndirect">>
    @@ \h05 :> <<"or_accumulator", "ZeroPage">>
    @@ \h06 :> <<"arithmetic_shift_left", "ZeroPage">>
    @@ \h08 :> <<"php">>
    @@ \h09 :> <<"or_accumulator", "Immediate">>
    @@ \h0A :> <<"arithmetic_shift_left", "RegisterA">>
    @@ \h0D :> <<"or_accumulator", "Absolute">>
    @@ \h0E :> <<"arithmetic_shift_left", "Absolute">>
    @@ \h10 :> <<"handle_branch_operation", STATUS_N, FALSE>>
    @@ \h11 :> <<"or_accumulator", "ZeroPageIndirectYIndexed">>
    @@ \h15 :> <<"or_accumulator", "ZeroPageXIndexed">>
    @@ \h16 :> <<"arithmetic_shift_left", "ZeroPageXIndexed">>
    @@ \h18 :> <<"clear_bit", STATUS_C>>
    @@ \h19 :> <<"or_accumulator", "AbsoluteYIndexed">>
    @@ \h1D :> <<"or_accumulator", "AbsoluteXIndexed">>
    @@ \h1E :> <<"arithmetic_shift_left", "AbsoluteXIndexed">>
    @@ \h20 :> <<"jsr">>
    @@ \h21 :> <<"and_accumulator", "ZeroPageXIndexedIndirect">>
    @@ \h24 :> <<"bit_test", "ZeroPage">>
    @@ \h25 :> <<"and_accumulator", "ZeroPage">>
    @@ \h26 :> <<"rotate_left", "ZeroPage">>
    @@ \h28 :> <<"plp">>
    @@ \h29 :> <<"and_accumulator", "Immediate">>
    @@ \h2A :> <<"rotate_left", "RegisterA">>
    @@ \h2C :> <<"bit_test", "Absolute">>
    @@ \h2D :> <<"and_accumulator", "Absolute">>
    @@ \h2E :> <<"rotate_left", "Absolute">>
    @@ \h30 :> <<"handle_branch_operation", STATUS_N, TRUE>>
    @@ \h31 :> <<"and_accumulator", "ZeroPageIndirectYIndexed">>
    @@ \h35 :> <<"and_accumulator", "ZeroPageXIndexed">>
    @@ \h36 :> <<"rotate_left", "ZeroPageXIndexed">>
    @@ \h38 :> <<"set_bit", STATUS_C>>
    @@ \h39 :> <<"and_accumulator", "AbsoluteYIndexed">>
    @@ \h3D :> <<"and_accumulator", "AbsoluteXIndexed">>
    @@ \h3E :> <<"rotate_left", "AbsoluteXIndexed">>
    @@ \h41 :> <<"xor_accumulator", "ZeroPageXIndexedIndirect">>
    @@ \h45 :> <<"xor_accumulator", "ZeroPage">>
    @@ \h46 :> <<"logical_shift_right", "ZeroPage">>
    @@ \h48 :> <<"pha">>
    @@ \h49 :> <<"xor_accumulator", "Immediate">>
    @@ \h4A :> <<"logical_shift_right", "RegisterA">>
    @@ \h4C :> <<"jmp">>
    @@ \h4D :> <<"xor_accumulator", "Absolute">>
    @@ \h4E :> <<"logical_shift_right", "Absolute">>
    @@ \h50 :> <<"handle_branch_operation", STATUS_V, FALSE>>
    @@ \h51 :> <<"xor_accumulator", "ZeroPageIndirectYIndexed">>
    @@ \h55 :> <<"xor_accumulator", "ZeroPageXIndexed">>
    @@ \h56 :> <<"logical_shift_right", "ZeroPageXIndexed">>
    @@ \h58 :> <<"clear_bit", STATUS_I>>
    @@ \h59 :> <<"xor_accumulator", "AbsoluteYIndexed">>
    @@ \h5D :> <<"xor_accumulator", "AbsoluteXIndexed">>
    @@ \h5E :> <<"logical_shift_right", "AbsoluteXIndexed">>
    @@ \h60 :> <<"rts">>
    @@ \h61 :> <<"perform_alu_operation", "RegisterA", "ZeroPageXIndexedIndirect", TRUE, FALSE, FALSE>>
    @@ \h65 :> <<"perform_alu_operation", "RegisterA", "ZeroPage", TRUE, FALSE, FALSE>>
    @@ \h66 :> <<"rotate_right", "ZeroPage">>
    @@ \h68 :> <<"pla">>
    @@ \h69 :> <<"perform_alu_operation", "RegisterA", "Immediate", TRUE, FALSE, FALSE>>
    @@ \h6A :> <<"rotate_right", "RegisterA">>
    @@ \h6C :> <<"jmp_indirect">>
    @@ \h6D :> <<"perform_alu_operation", "RegisterA", "Absolute", TRUE, FALSE, FALSE>>
    @@ \h6E :> <<"rotate_right", "Absolute">>
    @@ \h70 :> <<"handle_branch_operation", STATUS_V, TRUE>>
    @@ \h71 :> <<"perform_alu_operation", "RegisterA", "ZeroPageIndirectYIndexed", TRUE, FALSE, FALSE>>
    @@ \h75 :> <<"perform_alu_operation", "RegisterA", "ZeroPageXIndexed", TRUE, FALSE, FALSE>>
    @@ \h76 :> <<"rotate_right", "ZeroPageXIndexed">>
    @@ \h78 :> <<"set_bit", STATUS_I>>
    @@ \h79 :> <<"perform_alu_operation", "RegisterA", "AbsoluteYIndexed", TRUE, FALSE, FALSE>>
    @@ \h7D :> <<"perform_alu_operation", "RegisterA", "AbsoluteXIndexed", TRUE, FALSE, FALSE>>
    @@ \h7E :> <<"rotate_right", "AbsoluteXIndexed">>
    @@ \h81 :> <<"store", "RegisterA", "ZeroPageXIndexedIndirect">>
    @@ \h84 :> <<"store", "RegisterY", "ZeroPage">>
    @@ \h85 :> <<"store", "RegisterA", "ZeroPage">>
    @@ \h86 :> <<"store", "RegisterX", "ZeroPage">>
    @@ \h88 :> <<"decrement", "RegisterY">>
    @@ \h8A :> <<"transfer", "a", "x">>
    @@ \h8C :> <<"store", "RegisterY", "Absolute">>
    @@ \h8D :> <<"store", "RegisterA", "Absolute">>
    @@ \h8E :> <<"store", "RegisterX", "Absolute">>
    @@ \h90 :> <<"handle_branch_operation", STATUS_C, FALSE>>
    @@ \h91 :> <<"store", "RegisterA", "ZeroPageIndirectYIndexed">>
    @@ \h94 :> <<"store", "RegisterY", "ZeroPageXIndexed">>
    @@ \h95 :> <<"store", "RegisterA", "ZeroPageXIndexed">>
    @@ \h96 :> <<"store", "RegisterX", "ZeroPageYIndexed">>
    @@ \h98 :> <<"transfer", "a", "y">>
    @@ \h99 :> <<"store", "RegisterA", "AbsoluteYIndexed">>
    @@ \h9A :> <<"txs">>
    @@ \h9D :> <<"store", "RegisterA", "AbsoluteXIndexed">>
    @@ \hA0 :> <<"load", "RegisterY", "Immediate">>
    @@ \hA1 :> <<"load", "RegisterA", "ZeroPageXIndexedIndirect">>
    @@ \hA2 :> <<"load", "RegisterX", "Immediate">>
    @@ \hA4 :> <<"load", "RegisterY", "ZeroPage">>
    @@ \hA5 :> <<"load", "RegisterA", "ZeroPage">>
    @@ \hA6 :> <<"load", "RegisterX", "ZeroPage">>
    @@ \hA8 :> <<"transfer", "y", "a">>
    @@ \hA9 :> <<"load", "RegisterA", "Immediate">>
    @@ \hAA :> <<"transfer", "x", "a">>
    @@ \hAC :> <<"load", "RegisterY", "Absolute">>
    @@ \hAD :> <<"load", "RegisterA", "Absolute">>
    @@ \hAE :> <<"load", "RegisterX", "Absolute">>
    @@ \hB0 :> <<"handle_branch_operation", STATUS_C, TRUE>>
    @@ \hB1 :> <<"load", "RegisterA", "ZeroPageIndirectYIndexed">>
    @@ \hB4 :> <<"load", "RegisterY", "ZeroPageXIndexed">>
    @@ \hB5 :> <<"load", "RegisterA", "ZeroPageXIndexed">>
    @@ \hB6 :> <<"load", "RegisterX", "ZeroPageYIndexed">>
    @@ \hB8 :> <<"clear_bit", STATUS_V>>
    @@ \hB9 :> <<"load", "RegisterA", "AbsoluteYIndexed">>
    @@ \hBA :> <<"transfer", "x", "s">>
    @@ \hBC :> <<"load", "RegisterY", "AbsoluteXIndexed">>
    @@ \hBD :> <<"load", "RegisterA", "AbsoluteXIndexed">>
    @@ \hBE :> <<"load", "RegisterY", "AbsoluteXIndexed">>
    @@ \hC0 :> <<"perform_alu_operation", "RegisterY", "Immediate", FALSE, TRUE, TRUE>>
    @@ \hC1 :> <<"perform_alu_operation", "RegisterA", "ZeroPageXIndexedIndirect", FALSE, TRUE, TRUE>>
    @@ \hC4 :> <<"perform_alu_operation", "RegisterY", "ZeroPage", FALSE, TRUE, TRUE>>
    @@ \hC5 :> <<"perform_alu_operation", "RegisterA", "ZeroPage", FALSE, TRUE, TRUE>>
    @@ \hC6 :> <<"decrement", "ZeroPage">>
    @@ \hC8 :> <<"increment", "RegisterY">>
    @@ \hC9 :> <<"perform_alu_operation", "RegisterA", "Immediate", FALSE, TRUE, TRUE>>
    @@ \hCA :> <<"decrement", "RegisterX">>
    @@ \hCC :> <<"perform_alu_operation", "RegisterY", "Absolute", FALSE, TRUE, TRUE>>
    @@ \hCD :> <<"perform_alu_operation", "RegisterA", "Absolute", FALSE, TRUE, TRUE>>
    @@ \hCE :> <<"decrement", "Absolute">>
    @@ \hD0 :> <<"handle_branch_operation", STATUS_Z, FALSE>>
    @@ \hD1 :> <<"perform_alu_operation", "RegisterA", "ZeroPageIndirectYIndexed", FALSE, TRUE, TRUE>>
    @@ \hD5 :> <<"perform_alu_operation", "RegisterA", "ZeroPageXIndexed", FALSE, TRUE, TRUE>>
    @@ \hD6 :> <<"decrement", "ZeroPageXIndexed">>
    @@ \hD8 :> <<"clear_bit", STATUS_D>>
    @@ \hD9 :> <<"perform_alu_operation", "RegisterA", "AbsoluteYIndexed", FALSE, TRUE, TRUE>>
    @@ \hDD :> <<"perform_alu_operation", "RegisterA", "AbsoluteXIndexed", FALSE, TRUE, TRUE>>
    @@ \hDE :> <<"decrement", "AbsoluteXIndexed">>
    @@ \hE0 :> <<"perform_alu_operation", "RegisterX", "Immediate", FALSE, TRUE, TRUE>>
    @@ \hE1 :> <<"perform_alu_operation", "RegisterA", "ZeroPageXIndexedIndirect", TRUE, FALSE, TRUE>>
    @@ \hE4 :> <<"perform_alu_operation", "RegisterX", "ZeroPage", FALSE, TRUE, TRUE>>
    @@ \hE5 :> <<"perform_alu_operation", "RegisterA", "ZeroPage", TRUE, FALSE, TRUE>>
    @@ \hE6 :> <<"increment", "ZeroPage">>
    @@ \hE8 :> <<"increment", "RegisterX">>
    @@ \hE9 :> <<"perform_alu_operation", "RegisterA", "Immediate", TRUE, FALSE, TRUE>>
    @@ \hEA :> <<"nop">>
    @@ \hEC :> <<"perform_alu_operation", "RegisterX", "Absolute", FALSE, TRUE, TRUE>>
    @@ \hED :> <<"perform_alu_operation", "RegisterA", "Absolute", TRUE, FALSE, TRUE>>
    @@ \hEE :> <<"increment", "Absolute">>
    @@ \hF0 :> <<"handle_branch_operation", STATUS_Z, TRUE>>
    @@ \hF1 :> <<"perform_alu_operation", "RegisterA", "ZeroPageIndirectYIndexed", TRUE, FALSE, TRUE>>
    @@ \hF5 :> <<"perform_alu_operation", "RegisterA", "ZeroPageXIndexed", TRUE, FALSE, TRUE>>
    @@ \hF6 :> <<"increment", "ZeroPageXIndexed">>
    @@ \hF8 :> <<"set_bit", STATUS_D>>
    @@ \hF9 :> <<"perform_alu_operation", "RegisterA", "AbsoluteYIndexed", TRUE, FALSE, TRUE>>
    @@ \hFD :> <<"perform_alu_operation", "RegisterA", "AbsoluteXIndexed", TRUE, FALSE, TRUE>>
    @@ \hFE :> <<"increment", "AbsoluteXIndexed">>

\* A panic aborts the process; the first one is the one that is reported.
panic(m, why) == IF m.panicked = "none" THEN [m EXCEPT !.panicked = why] ELSE m

\* A variant of jsr that pushes PC once both operand bytes are read (C7 tells
\* it from the code).
jsr_pushing_next(m) ==
    With(read_pc_and_post_inc(m), LAMBDA f1 :
    With(read_pc_and_post_inc(f1.cpu), LAMBDA f2 :
        [push_byte(push_byte(f2.cpu, high_byte(f2.cpu.pc)), low_byte(f2.cpu.pc))
            EXCEPT !.pc = from_le_bytes(f1.value, f2.value)]))

\* 0x20 JSR
jsr(m) ==
    With(read_pc_and_post_inc(m), LAMBDA f1 :
    With(push_byte(push_byte(f1.cpu, high_byte(f1.cpu.pc)), low_byte(f1.cpu.pc)),
         LAMBDA m2 :
    With(read_pc_and_post_inc(m2), LAMBDA f2 :
        [f2.cpu EXCEPT !.pc = from_le_bytes(f1.value, f2.value)])))

\* 0x60 RTS
rts(m) ==
    With(pop_byte(m), LAMBDA l :
    With(pop_byte(l.cpu), LAMBDA h :
    With(add_one_u16(h.cpu, from_le_bytes(l.value, h.value)), LAMBDA inc :
        [inc.cpu EXCEPT !.pc = inc.value])))

\* 0x4C JMP abs
jmp(m) ==
    With(Absolute_new(m), LAMBDA n : [n.cpu EXCEPT !.pc = n.am.address])

\* 0x6C JMP (abs)
jmp_indirect(m) ==
    With(Absolute_new(m), LAMBDA n :
        LET address_of_address == n.am.address
            destination_low == read_byte(n.cpu.ram, address_of_address)
            destination_high ==
                read_byte(n.cpu.ram, wrapping_add_u16(address_of_address, 1))
        IN [n.cpu EXCEPT !.pc = from_le_bytes(destination_low, destination_high)])

\* 0x08 PHP, 0x48 PHA
php(m) == push_byte(m, m.p)
pha(m) == push_byte(m, m.a)

\* A variant of plp that takes the popped byte as it is (C9 tells it from the
\* code).
plp_as_popped(m) ==
    With(pop_byte(m), LAMBDA f : [f.cpu EXCEPT !.p = f.value])

\* 0x28 PLP
plp(m) ==
    With(pop_byte(m), LAMBDA f :
        [f.cpu EXCEPT !.p = BitOr(BitOr(f.value, STATUS_1), STATUS_B)])

\* 0x68 PLA
pla(m) ==
    With(pop_byte(m), LAMBDA f :
        assign_status_nz_for_result([f.cpu EXCEPT !.a = f.value], f.value))

\* 0x8A TXA, 0x98 TYA, 0xA8 TAY, 0xAA TAX, 0xBA TSX
transfer(m, to, from) ==
    [assign_status_nz_for_result(m, m[from]) EXCEPT ![to] = m[from]]

\* 0x9A TXS
txs(m) == [m EXCEPT !.s = m.x]

execute(m, d) ==
    CASE d[1] = "brk" -> panic(m, "todo")
      [] d[1] = "or_accumulator" -> or_accumulator(m, d[2])
      [] d[1] = "and_accumulator" -> and_accumulator(m, d[2])
      [] d[1] = "xor_accumulator" -> xor_accumulator(m, d[2])
      [] d[1] = "bit_test" -> bit_test(m, d[2])
      [] d[1] = "perform_alu_operation" ->
            perform_alu_operation(m, d[2], d[3], d[4], d[5], d[6])
      [] d[1] = "arithmetic_shift_left" -> arithmetic_shift_left(m, d[2])
      [] d[1] = "logical_shift_right" -> logical_shift_right(m, d[2])
      [] d[1] = "rotate_left" -> rotate_left(m, d[2])
      [] d[1] = "rotate_right" -> rotate_right(m, d[2])
      [] d[1] = "decrement" -> decrement(m, d[2])
      [] d[1] = "increment" -> increment(m, d[2])
      [] d[1] = "load" -> load(m, d[2], d[3])
      [] d[1] = "store" -> store(m, d[2], d[3])
      [] d[1] = "transfer" -> transfer(m, d[2], d[3])
      [] d[1] = "txs" -> txs(m)
      [] d[1] = "clear_bit" -> [m EXCEPT !.p = clear_bit(m.p, d[2])]
      [] d[1] = "set_bit" -> [m EXCEPT !.p = set_bit(m.p, d[2])]
      [] d[1] = "handle_branch_operation" ->
            handle_branch_operation(m, is_bit_set(m.p, d[2]) = d[3])
      [] d[1] = "jsr" -> jsr(m)
      [] d[1] = "rts" -> rts(m)
      [] d[1] = "jmp" -> jmp(m)
      [] d[1] = "jmp_indirect" -> jmp_indirect(m)
      [] d[1] = "php" -> php(m)
      [] d[1] = "pha" -> pha(m)
      [] d[1] = "plp" -> plp(m)
      [] d[1] = "pla" -> pla(m)
      [] d[1] = "nop" -> m

\* A variant of step that passes over a byte the match does not list.
step_over_unknown(m) ==
    With(read_pc_and_post_inc(m), LAMBDA f :
        IF f.value \in DOMAIN instructions
        THEN execute(f.cpu, instructions[f.value])
        ELSE f.cpu)

step(m) ==
    With(read_pc_and_post_inc(m), LAMBDA f :
        IF f.value \in DOMAIN instructions
        THEN execute(f.cpu, instructions[f.value])
        ELSE panic([f.cpu EXCEPT !.message = <<f.value>>], "unknown_opcode"))

\* The routine the match of step selects for an opcode byte.
routine(op) ==
    IF op \in DOMAIN instructions THEN instructions[op][1] ELSE "unknown_opcode"

-----------------------------------------------------------------------------
(* The host (inaccu6502-test): it loads an image into the RAM, constructs   *)
(* and resets the Cpu, may override registers, and then calls step in a    *)
(* loop.  The images and register values it is run with here:              *)

\* The bytes `bytes` at org, org + 1, ... (addresses wrap at 64 KiB).
at(org, bytes) ==
    [k \in {(org + i - 1) % 65536 : i \in 1 .. Len(bytes)} |->
        bytes[((k - org + 65536) % 65536) + 1]]

\* ramputer.ram[..].copy_from_slice(image); Cpu::new(); cpu.reset(&mut ramputer)
booted(image) == [cpu |-> reset(new, image), ram |-> image, overridden |-> FALSE]

\* The same, followed by cpu.set_pc(org) as the host does.
started(image, org) ==
    [cpu |-> set_pc(reset(new, image), org), ram |-> image, overridden |-> TRUE]

ByteSample ==
    {\h00, \h01, \h0F, \h10, \h40, \h50, \h60, \h7F,
     \h80, \h81, \hA0, \hB0, \hDF, \hF0, \hFE, \hFF}

StatusSample == {\h00, \h01, \h20, \h21, \hC2, \hFF}

StackSample == {\h00, \h01, \h80, \hFF}

\* ADC #imm, SBC #imm, CMP #imm, CPX #imm, CPY #imm on sampled registers.
AluCases ==
    { LET c == started(at(\h0400, <<op, operand>>), \h0400)
          r1 == set_p(c.cpu, status)
          r2 == CASE op = \hE0 -> set_x(r1, reg)
                  [] op = \hC0 -> set_y(r1, reg)
                  [] OTHER -> set_a(r1, reg)
      IN [c EXCEPT !.cpu = r2] :
        op \in {\h69, \hE9, \hC9, \hE0, \hC0},
        operand \in ByteSample, reg \in ByteSample, status \in StatusSample }

BranchOpcodes == {\h10, \h30, \h50, \h70, \h90, \hB0, \hD0, \hF0}

\* Every branch at several places, 0x80FF (so that PC is 0x8100 once the
\* opcode is fetched) and places where the destination wraps among them.
BranchCases ==
    { LET c == started(at(org, <<op, offset>>), org)
      IN [c EXCEPT !.cpu = set_p(c.cpu, status)] :
        op \in BranchOpcodes,
        offset \in {\h00, \h01, \h7F, \h80, \hFE, \hFF},
        org \in {\h80FF, \h0400, \h0010, \hFFF0},
        status \in {\h20, \hFF, \hA1, \h62} }

\* JSR t at address org, with an RTS at t.
JsrCases ==
    { LET c == started(at(org, <<\h20, low_byte(t), high_byte(t)>>)
                       @@ at(t, <<\h60>>), org)
      IN [c EXCEPT !.cpu = set_s(c.cpu, sp)] :
        org \in {\h8000, \h0400, \h01FC, \hFFFD},
        t \in {\h9000, \h0500, \h01F0},
        sp \in StackSample }

\* A push followed by a pull: PHA/PHP then PLA/PLP.
StackCases ==
    { LET c == started(at(\h0400, <<push, pull>>), \h0400)
      IN [c EXCEPT !.cpu = set_p(set_s(set_a(c.cpu, acc), sp), status)] :
        push \in {\h48, \h08}, pull \in {\h68, \h28},
        acc \in ByteSample, sp \in StackSample, status \in {\h00, \h20, \hFF} }

\* Programs that meet the end of the address space: an opcode at 0xFFFF, an
\* operand at 0xFFFF, and an RTS that pops 0xFFFF.
WrapCases ==
    { booted(at(RESET_VECTOR, <<\hFF, \hFF>>) @@ at(\hFFFF, <<op, \hEA>>)) :
        op \in {\hEA, \hA9, \h18, \h02} }
    \cup
    { booted(at(RESET_VECTOR, <<\hFE, \hFF>>) @@ at(\hFFFE, <<op, operand>>)) :
        op \in {\hA9, \h69, \hD0, \hF0}, operand \in {\h00, \h05, \hFE} }
    \cup
    { booted(at(RESET_VECTOR, <<\h00, \h04>>) @@ at(\h0400, <<\h60>>)
             @@ at(\h0100, <<lo, \hFF>>) @@ at(\h0000, <<\hEA>>)) :
        lo \in {\hFE, \hFF} }

\* Every opcode byte once, run from construction and reset.
OpcodeCases ==
    { booted(at(RESET_VECTOR, <<\h00, \h04>>) @@ at(\h0400, <<op, b1, b2>>)
             @@ at(\h0010, <<\h34, \h02>>)) :
        op \in Byte, b1 \in {\h10, \hFE, \h3A}, b2 \in {\h00, \h02} }

\* The instructions the sequences are made of.
Alphabet ==
    { <<\hA9, \h00>>,    \* LDA #$00
      <<\hA9, \hDF>>,    \* LDA #$DF
      <<\h48>>,          \* PHA
      <<\h08>>,          \* PHP
      <<\h28>>,          \* PLP
      <<\h68>>,          \* PLA
      <<\h24, \h10>>,    \* BIT $10
      <<\h24, \h11>>,    \* BIT $11
      <<\h2C, \h00, \h01>>,  \* BIT $0100
      <<\h69, \h50>>,    \* ADC #$50
      <<\hB8>> }         \* CLV

RECURSIVE Flatten(_)
Flatten(seqs) ==
    IF seqs = <<>> THEN <<>> ELSE Head(seqs) \o Flatten(Tail(seqs))

\* Every sequence of MaxProgLen instructions, run from construction and
\* reset, with data in the zero page and at the top of the stack page.
SequenceCases ==
    { booted(at(RESET_VECTOR, <<\h00, \h04>>) @@ at(\h0400, Flatten(prog))
             @@ at(\h0010, <<\hDF, \hFF>>) @@ at(\h0100, <<\hDF, \h00>>)) :
        prog \in [1 .. MaxProgLen -> Alphabet] }

\* LDA (zp,X) and STA (zp,X) with pointers in the zero page, the one at
\* 0x00FF among them, whose second byte is at 0x0000 or at 0x0100.
IndirectCases ==
    { LET c == started(at(\h0400, <<op, operand>>)
                       @@ at(\h0000, <<\h02, \h30>>)
                       @@ at(\h007E, <<\h10, \h05, \h20>>)
                       @@ at(\h00FE, <<\h40, \h20, \h03>>)
                       @@ at(\h0220, <<\hAA>>) @@ at(\h0320, <<\hBB>>)
                       @@ at(\h2040, <<\hCC>>) @@ at(\h3002, <<\hDD>>),
                       \h0400)
      IN [c EXCEPT !.cpu = set_a(set_x(c.cpu, index), \h5A)] :
        op \in {\hA1, \h81},
        operand \in {\h00, \h7E, \hF0, \hFE, \hFF},
        index \in {\h00, \h01, \h0F, \h81, \hFF} }

\* Opcode 0xBE with an address in the middle and one near the end of the
\* address space, X and Y given, different bytes at the places they reach.
LoadXCases ==
    { LET c == started(at(\h0400, <<\hBE, low_byte(abs), high_byte(abs)>>)
                       @@ at(\h0300, <<\h11>>) @@ at(\h0305, <<\h80>>)
                       @@ at(\h0320, <<\h00>>) @@ at(\hFFF0, <<\h7F>>)
                       @@ at(\hFFF5, <<\hFF>>) @@ at(\h0010, <<\h42>>),
                       \h0400)
      IN [c EXCEPT !.cpu = set_p(set_a(set_y(set_x(c.cpu, xi), yi), \h5A),
                                 status)] :
        abs \in {\h0300, \hFFF0}, xi \in {\h00, \h05, \h20},
        yi \in {\h00, \h05, \h20}, status \in {\h00, \hFF} }

\* BIT zp and BIT abs on sampled A and M.
BitCases ==
    { LET c == started(at(\h0400, IF op = \h24 THEN <<op, \h10>>
                                  ELSE <<op, \h00, \h03>>)
                       @@ at(IF op = \h24 THEN \h0010 ELSE \h0300, <<mem>>),
                       \h0400)
      IN [c EXCEPT !.cpu = set_p(set_a(c.cpu, acc), status)] :
        op \in {\h24, \h2C}, acc \in ByteSample, mem \in ByteSample,
        status \in {\h00, \h22, \hFF} }

TestCases ==
    AluCases \cup BranchCases \cup JsrCases \cup StackCases \cup WrapCases
    \cup OpcodeCases \cup SequenceCases \cup IndirectCases \cup LoadXCases
    \cup BitCases

-----------------------------------------------------------------------------
(* The PPU (src/inaccunes/src/system/ppu.rs) and the cartridge it reads    *)
(* (src/inaccunes/src/cartridge.rs).  Each PPU routine is an operator from *)
(* a device record -- the PPU fields, the cartridge, the levels handed to  *)
(* Cpu::set_nmi_signal, the value the routine returns and whether it has   *)
(* panicked -- to the device record after it.                              *)

MirroringType == {"Horizontal", "Vertical", "FourScreen"}

CHR_CHUNK_SIZE == 8 * 1024

PRG_CHUNK_SIZE == 16 * 1024

\* Cartridge::new for an NROM file whose header asks for this mirroring:
\* a CHR ROM and a PRG ROM with a few bytes that are not 0, the last of
\* them in the final page of the PRG ROM.
Cartridge_new(mirroring_type) ==
    [mirroring_type |-> mirroring_type,
     chr_size |-> ChrChunks * CHR_CHUNK_SIZE,
     chr_data |-> at(\h0000, <<\h11, \h22, \h33>>) @@ at(\h1FFF, <<\h99>>)
                  \* tile 1: plane 0 of rows 0 and 7
                  @@ at(\h0010, <<\hFF>>) @@ at(\h0017, <<\h81>>)
                  \* tile 2: both planes of every row
                  @@ at(\h0020, [i \in 1 .. 16 |-> \hFF]),
     prg_size |-> PrgChunks * PRG_CHUNK_SIZE,
     prg_data |-> at(\h0000, <<\hA9, \h5A>>) @@ at(\h0100, <<\hC3>>)
                  @@ at(PrgChunks * PRG_CHUNK_SIZE - 256, <<\hE1, \hE2>>)
                  @@ at(PrgChunks * PRG_CHUNK_SIZE - 1, <<\hEF>>)]

\* Cartridge::perform_chr_read: the CHR ROM repeats over the pattern tables.
perform_chr_read(cart, address) ==
    read_byte(cart.chr_data, address % cart.chr_size)

\* Cartridge::perform_chr_write: CHR is ROM, the write is only logged.
perform_chr_write(cart, address, data) == cart

\* Cartridge::get_tile: the 2-bit colour of pixel (x_in, y_in) of the tile at
\* tile_address, from the bit at 1 << x_in of the two planes, which lie 8
\* bytes apart.
get_tile(cart, tile_address, x_in, y_in) ==
    ((perform_chr_read(cart, tile_address + y_in) \div (2 ^ x_in)) % 2)
    + 2 * ((perform_chr_read(cart, tile_address + y_in + 8) \div (2 ^ x_in)) % 2)

\* PPU::new.
PPU_new ==
    [register_control |-> 0,
     register_mask |-> 0,
     register_oam_address |-> 0,
     register_scroll_x |-> 0,
     register_scroll_y |-> 0,
     oam |-> [k \in {} |-> 0],
     vblank_status_flag |-> FALSE,
     vblank_in_progress |-> FALSE,
     cursed_multi_register_flag |-> TRUE,
     nametables |-> [k \in {} |-> 0],
     cram |-> [k \in 0 .. 31 |-> 0],
     sprite_0_hit_flag |-> FALSE,
     ppudata_latch |-> 0,
     current_render_address |-> 0,
     canon_render_address |-> 0,
     fine_scroll_x |-> 0]

\* PPU::perform_bus_read.  `nametables` and `oam` hold the bytes that have
\* been written; every other byte reads 0.
perform_bus_read(m, address) ==
    With(BitAnd(address, \h3FFF), LAMBDA addr :
        IF addr < \h2000 THEN perform_chr_read(m.cartridge, addr)
        ELSE IF addr > \h3F00 THEN m.ppu.cram[BitAnd(addr, \h1F)]
        ELSE read_byte(m.ppu.nametables, BitAnd(addr, \hFFF)))

\* A variant of bit_to_flip with the bits of the two mirroring schemes
\* exchanged (C20 tells it from the code).
bit_to_flip_exchanged(mirroring_type) ==
    CASE mirroring_type = "Horizontal" -> \h800
      [] mirroring_type = "Vertical" -> \h400
      [] mirroring_type = "FourScreen" -> 0

\* The `match cartridge.mirroring_type` of perform_bus_write.
bit_to_flip(mirroring_type) ==
    CASE mirroring_type = "Horizontal" -> \h400
      [] mirroring_type = "Vertical" -> \h800
      [] mirroring_type = "FourScreen" -> 0

\* PPU::perform_bus_write.
perform_bus_write(m, address, data) ==
    With(BitAnd(address, \h3FFF), LAMBDA addr :
        IF addr < \h2000
        THEN [m EXCEPT !.cartridge = perform_chr_write(@, addr, data)]
        ELSE IF addr > \h3F00
        THEN [m EXCEPT !.ppu.cram[BitAnd(addr, \h1F)] = data]
        ELSE With(BitAnd(addr, \hFFF), LAMBDA nametable_address :
                [m EXCEPT !.ppu.nametables =
                    write_byte(write_byte(@, nametable_address, data),
                               BitXor(nametable_address,
                                      bit_to_flip(m.cartridge.mirroring_type)),
                               data)]))

\* A variant of increment_ppudata_address that flips the write toggle as
\* well (C15 tells it from the code).
increment_ppudata_address_and_toggle(m) ==
    [m EXCEPT !.ppu.current_render_address =
                  wrapping_add_u16(@, IF BitAnd(m.ppu.register_control, \h04) = 0
                                      THEN 1 ELSE 32),
              !.ppu.cursed_multi_register_flag = ~@]

\* The same, but the address is kept in 15 bits.
increment_ppudata_address_15_bits(m) ==
    [m EXCEPT !.ppu.current_render_address =
        (@ + (IF BitAnd(m.ppu.register_control, \h04) = 0 THEN 1 ELSE 32))
            % 32768]

\* PPU::increment_ppudata_address.
increment_ppudata_address(m) ==
    [m EXCEPT !.ppu.current_render_address =
        wrapping_add_u16(@, IF BitAnd(m.ppu.register_control, \h04) = 0
                            THEN 1 ELSE 32)]

\* PPU::is_nmi_on.
is_nmi_on(pp) == BitAnd(pp.register_control, \h80) # 0

\* PPU::is_nmi_supposed_to_be_active.
is_nmi_supposed_to_be_active(pp) == is_nmi_on(pp) /\ pp.vblank_status_flag

\* Cpu::set_nmi_signal, whose body is `todo!("NMI signal")`: the caller has
\* evaluated the level, the call panics.
set_nmi_signal(m, active) ==
    panic([m EXCEPT !.nmi_signals = Append(@, active)], "todo")

\* A variant of perform_register_read whose read of port 2 leaves the write
\* toggle as it is (C14 tells it from the code).
perform_register_read_keeping_toggle(m, address) ==
    With(BitAnd(address, 7), LAMBDA port :
        CASE port \in {0, 1, 3, 5, 6} -> [m EXCEPT !.result = 0]
          [] port = 2 ->
               [m EXCEPT !.ppu.vblank_status_flag = FALSE,
                         !.result =
                             BitOr(IF m.ppu.sprite_0_hit_flag THEN \h40 ELSE 0,
                                   IF m.ppu.vblank_status_flag THEN \h80 ELSE 0)]
          [] port = 4 -> panic(m, "todo")
          [] port = 7 ->
               increment_ppudata_address(
                   [m EXCEPT !.result = m.ppu.ppudata_latch,
                             !.ppu.ppudata_latch =
                                 perform_bus_read(m, m.ppu.current_render_address)]))

\* A variant of perform_register_read whose read of a write-only port
\* returns the read buffer (C25 tells it from the code).
perform_register_read_open_bus(m, address) ==
    With(BitAnd(address, 7), LAMBDA port :
        CASE port \in {0, 1, 3, 5, 6} ->
               [m EXCEPT !.result = m.ppu.ppudata_latch]
          [] port = 2 ->
               [m EXCEPT !.ppu.cursed_multi_register_flag = TRUE,
                         !.ppu.vblank_status_flag = FALSE,
                         !.result =
                             BitOr(IF m.ppu.sprite_0_hit_flag THEN \h40 ELSE 0,
                                   IF m.ppu.vblank_status_flag THEN \h80 ELSE 0)]
          [] port = 4 -> panic(m, "todo")
          [] port = 7 ->
               increment_ppudata_address(
                   [m EXCEPT !.result = m.ppu.ppudata_latch,
                             !.ppu.ppudata_latch =
                                 perform_bus_read(m, m.ppu.current_render_address)]))

\* PPU::perform_register_read.
perform_register_read(m, address) ==
    With(BitAnd(address, 7), LAMBDA port :
        CASE port \in {0, 1, 3, 5, 6} -> [m EXCEPT !.result = 0]
          [] port = 2 ->
               [m EXCEPT !.ppu.cursed_multi_register_flag = TRUE,
                         !.ppu.vblank_status_flag = FALSE,
                         !.result =
                             BitOr(IF m.ppu.sprite_0_hit_flag THEN \h40 ELSE 0,
                                   IF m.ppu.vblank_status_flag THEN \h80 ELSE 0)]
          [] port = 4 -> panic(m, "todo")
          [] port = 7 ->
               increment_ppudata_address(
                   [m EXCEPT !.result = m.ppu.ppudata_latch,
                             !.ppu.ppudata_latch =
                                 perform_bus_read(m, m.ppu.current_render_address)]))

\* The same, but the second write to port 5 clears T's bits 11-10.
perform_register_write_scroll_y_only(m, address, data) ==
    With(BitAnd(address, 7), LAMBDA port :
        CASE port = 0 ->
               With([m EXCEPT !.ppu.canon_render_address =
                                  BitOr(BitAnd(@, \h73FF), BitAnd(data, 3) * \h400),
                              !.ppu.register_control = data],
                    LAMBDA m1 : set_nmi_signal(m1, is_nmi_supposed_to_be_active(m1.ppu)))
          [] port = 1 -> [m EXCEPT !.ppu.register_mask = data]
          [] port = 2 -> m
          [] port = 3 -> [m EXCEPT !.ppu.register_oam_address = data]
          [] port = 4 ->
               [m EXCEPT !.ppu.oam = write_byte(@, m.ppu.register_oam_address, data),
                         !.ppu.register_oam_address = wrapping_add_u8(@, 1)]
          [] port = 5 ->
               IF m.ppu.cursed_multi_register_flag
               THEN [m EXCEPT !.ppu.register_scroll_x = data,
                              !.ppu.canon_render_address =
                                  BitOr(BitAnd(@, \h7FE0), data \div 8),
                              !.ppu.fine_scroll_x = BitAnd(data, 7),
                              !.ppu.cursed_multi_register_flag = FALSE]
               ELSE [m EXCEPT !.ppu.register_scroll_y = data,
                              !.ppu.canon_render_address =
                                  BitOr(BitOr(BitAnd(@, \h001F), (data \div 8) * \h20),
                                        BitAnd(data, 7) * \h1000),
                              !.ppu.cursed_multi_register_flag = TRUE]
          [] port = 6 ->
               IF m.ppu.cursed_multi_register_flag
               THEN [m EXCEPT !.ppu.canon_render_address =
                                  BitOr(BitAnd(@, \h40FF), BitAnd(data, \h3F) * \h100),
                              !.ppu.cursed_multi_register_flag = FALSE]
               ELSE With(BitOr(BitAnd(m.ppu.canon_render_address, \h7F00), data),
                         LAMBDA t :
                           [m EXCEPT !.ppu.canon_render_address = t,
                                     !.ppu.current_render_address = t,
                                     !.ppu.cursed_multi_register_flag = TRUE])
          [] port = 7 ->
               increment_ppudata_address(
                   perform_bus_write(m, m.ppu.current_render_address, data)))

\* PPU::perform_register_write.
perform_register_write(m, address, data) ==
    With(BitAnd(address, 7), LAMBDA port :
        CASE port = 0 ->
               With([m EXCEPT !.ppu.canon_render_address =
                                  BitOr(BitAnd(@, \h73FF), BitAnd(data, 3) * \h400),
                              !.ppu.register_control = data],
                    LAMBDA m1 : set_nmi_signal(m1, is_nmi_supposed_to_be_active(m1.ppu)))
          [] port = 1 -> [m EXCEPT !.ppu.register_mask = data]
          [] port = 2 -> m
          [] port = 3 -> [m EXCEPT !.ppu.register_oam_address = data]
          [] port = 4 ->
               [m EXCEPT !.ppu.oam = write_byte(@, m.ppu.register_oam_address, data),
                         !.ppu.register_oam_address = wrapping_add_u8(@, 1)]
          [] port = 5 ->
               IF m.ppu.cursed_multi_register_flag
               THEN [m EXCEPT !.ppu.register_scroll_x = data,
                              !.ppu.canon_render_address =
                                  BitOr(BitAnd(@, \h7FE0), data \div 8),
                              !.ppu.fine_scroll_x = BitAnd(data, 7),
                              !.ppu.cursed_multi_register_flag = FALSE]
               ELSE [m EXCEPT !.ppu.register_scroll_y = data,
                              !.ppu.canon_render_address =
                                  BitOr(BitOr(BitAnd(@, \h0C1F), (data \div 8) * \h20),
                                        BitAnd(data, 7) * \h1000),
                              !.ppu.cursed_multi_register_flag = TRUE]
          [] port = 6 ->
               IF m.ppu.cursed_multi_register_flag
               THEN [m EXCEPT !.ppu.canon_render_address =
                                  BitOr(BitAnd(@, \h40FF), BitAnd(data, \h3F) * \h100),
                              !.ppu.cursed_multi_register_flag = FALSE]
               ELSE With(BitOr(BitAnd(m.ppu.canon_render_address, \h7F00), data),
                         LAMBDA t :
                           [m EXCEPT !.ppu.canon_render_address = t,
                                     !.ppu.current_render_address = t,
                                     !.ppu.cursed_multi_register_flag = TRUE])
          [] port = 7 ->
               increment_ppudata_address(
                   perform_bus_write(m, m.ppu.current_render_address, data)))

\* PPU::vblank_start.
vblank_start(m) ==
    With([m EXCEPT !.ppu.vblank_status_flag = TRUE,
                   !.ppu.vblank_in_progress = TRUE],
         LAMBDA m1 :
           With(set_nmi_signal(m1, is_nmi_supposed_to_be_active(m1.ppu)),
                LAMBDA m2 :
                  IF m2.panicked = "none"
                  THEN [m2 EXCEPT !.ppu.sprite_0_hit_flag = TRUE]
                  ELSE m2))

\* PPU::vblank_stop.
vblank_stop(m) ==
    With([m EXCEPT !.ppu.vblank_status_flag = FALSE,
                   !.ppu.vblank_in_progress = FALSE],
         LAMBDA m1 :
           With(set_nmi_signal(m1, is_nmi_supposed_to_be_active(m1.ppu)),
                LAMBDA m2 :
                  IF m2.panicked = "none"
                  THEN [m2 EXCEPT !.ppu.sprite_0_hit_flag = FALSE]
                  ELSE m2))

\* PPU::turn_on_sprite_0_hit.
turn_on_sprite_0_hit(m) == [m EXCEPT !.ppu.sprite_0_hit_flag = TRUE]

-----------------------------------------------------------------------------
(* Controller and Devices (system.rs).  A routine takes the devices as a   *)
(* record and returns them with the byte it read in `result`.              *)

\* Controller::default.
Controller_default ==
    [button_a |-> FALSE, button_b |-> FALSE, button_select |-> FALSE,
     button_start |-> FALSE, button_up |-> FALSE, button_down |-> FALSE,
     button_left |-> FALSE, button_right |-> FALSE,
     latch_state |-> FALSE, captured_byte |-> 0]

\* Controller::capture_byte: one bit per button that is held (BUTTON_A is
\* 0x01, ..., BUTTON_RIGHT is 0x80).
capture_byte(c) ==
    (IF c.button_a THEN \h01 ELSE 0) + (IF c.button_b THEN \h02 ELSE 0)
    + (IF c.button_select THEN \h04 ELSE 0)
    + (IF c.button_start THEN \h08 ELSE 0)
    + (IF c.button_up THEN \h10 ELSE 0) + (IF c.button_down THEN \h20 ELSE 0)
    + (IF c.button_left THEN \h40 ELSE 0)
    + (IF c.button_right THEN \h80 ELSE 0)

\* Controller::set_latch_state.
set_latch_state(c, state) ==
    IF state
    THEN [c EXCEPT !.latch_state = TRUE, !.captured_byte = capture_byte(c)]
    ELSE [c EXCEPT !.latch_state = FALSE]

\* The same, but the shift register is filled with 0s from the top.
perform_read_zero_fill(c) ==
    With(IF c.latch_state THEN [c EXCEPT !.captured_byte = capture_byte(c)]
         ELSE c,
         LAMBDA c1 :
            [result |-> BitAnd(c1.captured_byte, 1),
             controller |->
                IF ~c1.latch_state
                THEN [c1 EXCEPT !.captured_byte = c1.captured_byte \div 2]
                ELSE c1])

\* Controller::perform_read: the byte read and the controller afterwards.
perform_read(c) ==
    With(IF c.latch_state THEN [c EXCEPT !.captured_byte = capture_byte(c)]
         ELSE c,
         LAMBDA c1 :
            [result |-> BitAnd(c1.captured_byte, 1),
             controller |->
                IF ~c1.latch_state
                THEN [c1 EXCEPT !.captured_byte =
                                   BitOr(c1.captured_byte \div 2, \h80)]
                ELSE c1])

\* A key of the keyboard goes down or up (main.rs): the button of
\* controller 0 that it stands for, here named by its BUTTON_* bit, is held
\* or released.
key_event(m, button, pressed) ==
    With(CASE button = \h01 -> "button_a"
           [] button = \h02 -> "button_b"
           [] button = \h04 -> "button_select"
           [] button = \h08 -> "button_start"
           [] button = \h10 -> "button_up"
           [] button = \h20 -> "button_down"
           [] button = \h40 -> "button_left"
           [] button = \h80 -> "button_right",
         LAMBDA field : [m EXCEPT !.controllers[0][field] = pressed])

\* Devices::read_byte.  (The PRG ROM of a cartridge has at least one chunk.)
Devices_read_byte(m, address) ==
    IF address < \h2000
    THEN [m EXCEPT !.result = read_byte(m.ram, BitAnd(address, \h7FF))]
    ELSE IF address < \h4000
    THEN perform_register_read(m, address)
    ELSE IF address < \h4018
    THEN (IF address \in {\h4016, \h4017}
          THEN With(perform_read(m.controllers[address - \h4016]), LAMBDA r :
                  [m EXCEPT !.controllers[address - \h4016] = r.controller,
                            !.result = r.result])
          ELSE [m EXCEPT !.result = read_byte(m.apu, address - \h4000)])
    ELSE [m EXCEPT !.result = read_byte(m.cartridge.prg_data,
                                        address % m.cartridge.prg_size)]

RECURSIVE Devices_write_byte(_, _, _)

\* The same, but the byte of the last source address of the page is not
\* copied.
RECURSIVE oam_dma_short(_, _, _)
oam_dma_short(m, first, last) ==
    IF m.panicked # "none" \/ first % 256 = 255
    THEN m
    ELSE IF first = last
    THEN With(Devices_read_byte(m, first), LAMBDA r :
            Devices_write_byte(r, \h2004, r.result))
    ELSE With(oam_dma_short(m, first, (first + last) \div 2), LAMBDA r :
            oam_dma_short(r, (first + last) \div 2 + 1, last))

\* Devices::write_byte, the loop of the OAM DMA: each byte of first..=last,
\* in this order, is read from the bus and written to OAMDATA.  A panic of
\* a read or of a write ends it.  (The loop is unfolded by halves: the
\* addresses up to the middle, then the others.)
RECURSIVE oam_dma(_, _, _)
oam_dma(m, first, last) ==
    IF m.panicked # "none"
    THEN m
    ELSE IF first = last
    THEN With(Devices_read_byte(m, first), LAMBDA r :
            Devices_write_byte(r, \h2004, r.result))
    ELSE With(oam_dma(m, first, (first + last) \div 2), LAMBDA r :
            oam_dma(r, (first + last) \div 2 + 1, last))

\* The same, but a write to 0x4018-0xFFFF goes through to the PRG ROM.
Devices_write_byte_through(m, address, data) ==
    IF address < \h2000
    THEN [m EXCEPT !.ram = write_byte(m.ram, BitAnd(address, \h7FF), data)]
    ELSE IF address < \h4000
    THEN perform_register_write(m, address, data)
    ELSE IF address < \h4018
    THEN CASE address = \h4014 ->
                IF data * 256 + 255 > \hFFFF
                THEN panic(m, "overflow")
                ELSE oam_dma(m, data * 256, data * 256 + 255)
           [] address = \h4016 ->
                [m EXCEPT !.controllers =
                    [i \in 0 .. 1 |->
                        set_latch_state(m.controllers[i],
                                        BitAnd(data, 1) # 0)]]
           [] address = \h4017 -> m
           [] OTHER -> [m EXCEPT !.apu = write_byte(m.apu, address - \h4000,
                                                    data)]
    ELSE [m EXCEPT !.cartridge.prg_data =
                      write_byte(@, address % m.cartridge.prg_size, data)]

\* Devices::write_byte.  0x4014 starts the OAM DMA of page `data` (its last
\* address, start + 255, is at most 0xFFFF); a write to 0x4018-0xFFFF is
\* only logged.
Devices_write_byte(m, address, data) ==
    IF address < \h2000
    THEN [m EXCEPT !.ram = write_byte(m.ram, BitAnd(address, \h7FF), data)]
    ELSE IF address < \h4000
    THEN perform_register_write(m, address, data)
    ELSE IF address < \h4018
    THEN CASE address = \h4014 ->
                IF data * 256 + 255 > \hFFFF
                THEN panic(m, "overflow")
                ELSE oam_dma(m, data * 256, data * 256 + 255)
           [] address = \h4016 ->
                [m EXCEPT !.controllers =
                    [i \in 0 .. 1 |->
                        set_latch_state(m.controllers[i],
                                        BitAnd(data, 1) # 0)]]
           [] address = \h4017 -> m
           [] OTHER -> [m EXCEPT !.apu = write_byte(m.apu, address - \h4000,
                                                    data)]
    ELSE m

-----------------------------------------------------------------------------
(* The renderer (system.rs): Sprite and the parts of System::render.  The  *)
(* rasterization of a scanline returns, in `pixels`, the palette RAM entry *)
(* chosen for each of its pixels; the lookup of its ARGB value is left     *)
(* out.                                                                    *)

\* Sprite::from_oam_data, from the four OAM bytes of a sprite.
from_oam_data(sprites_are_8x16, sprite_tiles_are_in_upper_half, oam_data) ==
    [x |-> oam_data[4],
     y |-> oam_data[1] + 1,
     tile_address |->
        IF sprites_are_8x16
        THEN (IF BitAnd(oam_data[2], 1) # 0 THEN \h1000 ELSE 0)
             + BitAnd(oam_data[2], \hFE) * 16
        ELSE IF sprite_tiles_are_in_upper_half
        THEN \h1000 + oam_data[2] * 16
        ELSE oam_data[2] * 16,
     palette |-> BitAnd(oam_data[3], 3) + 4,
     is_behind_background |-> BitAnd(oam_data[3], \h20) # 0,
     flip_horizontal |-> BitAnd(oam_data[3], \h40) # 0,
     flip_vertical |-> BitAnd(oam_data[3], \h80) # 0]

\* Sprite::is_visible_on_scanline.
is_visible_on_scanline(sprite, sprites_are_8x16, line) ==
    line \in sprite.y .. sprite.y + (IF sprites_are_8x16 THEN 16 ELSE 8) - 1

\* Sprite::get_pixel_for_xy: `some` tells Some((color, palette, behind))
\* from None.
get_pixel_for_xy(sprite, cart, sprites_are_8x16, column, line) ==
    IF column \in sprite.x .. sprite.x + 7
    THEN With(IF sprite.flip_horizontal THEN 7 - (column - sprite.x)
              ELSE column - sprite.x,
              LAMBDA x_within_sprite :
         With(IF sprite.flip_vertical
              THEN (IF sprites_are_8x16 THEN 15 ELSE 7) - (line - sprite.y)
              ELSE line - sprite.y,
              LAMBDA y_within_sprite :
         With(get_tile(cart, sprite.tile_address, x_within_sprite,
                       IF y_within_sprite >= 8 THEN y_within_sprite + 8
                       ELSE y_within_sprite),
              LAMBDA sprite_color :
                 [some |-> sprite_color # 0, color |-> sprite_color,
                  palette |-> sprite.palette,
                  behind |-> sprite.is_behind_background])))
    ELSE [some |-> FALSE, color |-> 0, palette |-> 0, behind |-> FALSE]

\* The same, but up to nine sprites are taken.
sprites_on_scanline_nine(pp, line) ==
    With(BitAnd(pp.register_control, \h20) # 0, LAMBDA sprites_are_8x16 :
    With(SelectSeq(
            [i \in 1 .. 64 |->
                [index |-> i - 1,
                 sprite |-> from_oam_data(
                     sprites_are_8x16,
                     BitAnd(pp.register_control, \h08) # 0,
                     [k \in 1 .. 4 |-> read_byte(pp.oam, 4 * (i - 1) + k - 1)])]],
            LAMBDA e : is_visible_on_scanline(e.sprite, sprites_are_8x16, line)),
         LAMBDA visible :
            SubSeq(visible, 1, IF Len(visible) < 9 THEN Len(visible) ELSE 9)))

\* System::render, the sprites of a scanline: the sprites of the OAM, in
\* its order, that are visible on the scanline, up to
\* MAX_SPRITES_PER_SCANLINE = 8 of them, each with its index.
sprites_on_scanline(pp, line) ==
    With(BitAnd(pp.register_control, \h20) # 0, LAMBDA sprites_are_8x16 :
    With(SelectSeq(
            [i \in 1 .. 64 |->
                [index |-> i - 1,
                 sprite |-> from_oam_data(
                     sprites_are_8x16,
                     BitAnd(pp.register_control, \h08) # 0,
                     [k \in 1 .. 4 |-> read_byte(pp.oam, 4 * (i - 1) + k - 1)])]],
            LAMBDA e : is_visible_on_scanline(e.sprite, sprites_are_8x16, line)),
         LAMBDA visible :
            SubSeq(visible, 1, IF Len(visible) < 8 THEN Len(visible) ELSE 8)))

\* A variant of get_cursed_pixel_for_background that stays in one
\* nametable: behind coarse X 31 comes coarse X 0 of the same one.
get_cursed_pixel_for_background_one_nametable(m) ==
    With(m.ppu.current_render_address, LAMBDA v :
    With(perform_bus_read(m, BitOr(BitAnd(v, \h0FFF), \h2000)),
         LAMBDA tile_number :
    With(perform_bus_read(m,
            BitOr(BitOr(BitAnd(v, \h0C00), BitAnd(v \div 16, \h38)),
                  BitOr(BitAnd(v \div 4, \h07), \h23C0))),
         LAMBDA attribute_byte :
       [color |->
            get_tile(m.cartridge,
                     (IF BitAnd(m.ppu.register_control, \h10) # 0
                      THEN \h1000 ELSE 0) + tile_number * 16,
                     m.ppu.fine_scroll_x, v \div 4096),
        attribute |->
            (attribute_byte
                \div (2 ^ (2 * BitOr((v \div 2) % 2,
                                     BitAnd(v \div 32, 2))))) % 4,
        m |->
            IF m.ppu.fine_scroll_x + 1 >= 8
            THEN [m EXCEPT !.ppu.fine_scroll_x = 0,
                           !.ppu.current_render_address =
                               IF BitAnd(v, \h1F) = \h1F
                               THEN BitAnd(v, \h7FE0)
                               ELSE v + 1]
            ELSE [m EXCEPT !.ppu.fine_scroll_x = @ + 1]])))

\* System::get_cursed_pixel_for_background: the devices afterwards, the
\* colour and the attribute (the palette) of the background pixel.
get_cursed_pixel_for_background(m) ==
    With(m.ppu.current_render_address, LAMBDA v :
    With(perform_bus_read(m, BitOr(BitAnd(v, \h0FFF), \h2000)),
         LAMBDA tile_number :
    With(perform_bus_read(m,
            BitOr(BitOr(BitAnd(v, \h0C00), BitAnd(v \div 16, \h38)),
                  BitOr(BitAnd(v \div 4, \h07), \h23C0))),
         LAMBDA attribute_byte :
       [color |->
            get_tile(m.cartridge,
                     (IF BitAnd(m.ppu.register_control, \h10) # 0
                      THEN \h1000 ELSE 0) + tile_number * 16,
                     m.ppu.fine_scroll_x, v \div 4096),
        attribute |->
            (attribute_byte
                \div (2 ^ (2 * BitOr((v \div 2) % 2,
                                     BitAnd(v \div 32, 2))))) % 4,
        m |->
            IF m.ppu.fine_scroll_x + 1 >= 8
            THEN [m EXCEPT !.ppu.fine_scroll_x = 0,
                           !.ppu.current_render_address =
                               IF BitAnd(v, \h1F) = \h1F
                               THEN BitXor(BitAnd(v, \h7FE0), \h0400)
                               ELSE v + 1]
            ELSE [m EXCEPT !.ppu.fine_scroll_x = @ + 1]])))

\* The same, but every sprite's pixel over a background pixel counts as a
\* sprite-0 hit.
render_pixel_any_sprite(m, sprites, column, line) ==
    With(get_cursed_pixel_for_background(m), LAMBDA bg :
    With(SelectSeq(
            [i \in 1 .. Len(sprites) |->
                [index |-> sprites[i].index,
                 px |-> get_pixel_for_xy(sprites[i].sprite, m.cartridge,
                            BitAnd(m.ppu.register_control, \h20) # 0, column, line)]],
            LAMBDA e : e.px.some),
         LAMBDA found :
    With(IF found = <<>>
         THEN [index |-> 69,
               px |-> [some |-> FALSE, color |-> 0, palette |-> 0,
                       behind |-> FALSE]]
         ELSE Head(found),
         LAMBDA first :
    With(IF first.px.color # 0 /\ ~(bg.color # 0 /\ first.px.behind)
         THEN [color |-> first.px.color, palette |-> first.px.palette]
         ELSE [color |-> bg.color, palette |-> bg.attribute],
         LAMBDA chosen :
    With(IF bg.color # 0 /\ first.px.color # 0
         THEN turn_on_sprite_0_hit(bg.m)
         ELSE bg.m,
         LAMBDA m1 :
            [m1 EXCEPT !.pixels =
                Append(@, IF chosen.color = 0 THEN m1.ppu.cram[0]
                          ELSE m1.ppu.cram[chosen.palette * 4
                                           + chosen.color])])))))

\* The same, but colour 0 is looked up in the chosen palette.
render_pixel_by_palette(m, sprites, column, line) ==
    With(get_cursed_pixel_for_background(m), LAMBDA bg :
    With(SelectSeq(
            [i \in 1 .. Len(sprites) |->
                [index |-> sprites[i].index,
                 px |-> get_pixel_for_xy(sprites[i].sprite, m.cartridge,
                            BitAnd(m.ppu.register_control, \h20) # 0, column, line)]],
            LAMBDA e : e.px.some),
         LAMBDA found :
    With(IF found = <<>>
         THEN [index |-> 69,
               px |-> [some |-> FALSE, color |-> 0, palette |-> 0,
                       behind |-> FALSE]]
         ELSE Head(found),
         LAMBDA first :
    With(IF first.px.color # 0 /\ ~(bg.color # 0 /\ first.px.behind)
         THEN [color |-> first.px.color, palette |-> first.px.palette]
         ELSE [color |-> bg.color, palette |-> bg.attribute],
         LAMBDA chosen :
    With(IF first.index = 0 /\ bg.color # 0 /\ first.px.color # 0
         THEN turn_on_sprite_0_hit(bg.m)
         ELSE bg.m,
         LAMBDA m1 :
            [m1 EXCEPT !.pixels =
                Append(@, m1.ppu.cram[chosen.palette * 4
                                      + chosen.color])])))))

\* System::render, one pixel: the background pixel, the first sprite of the
\* scanline's sprites with a pixel here (index 69 and colour 0 if there is
\* none), the choice between the two, the palette RAM entry, the sprite-0
\* hit.
render_pixel(m, sprites, column, line) ==
    With(get_cursed_pixel_for_background(m), LAMBDA bg :
    With(SelectSeq(
            [i \in 1 .. Len(sprites) |->
                [index |-> sprites[i].index,
                 px |-> get_pixel_for_xy(sprites[i].sprite, m.cartridge,
                            BitAnd(m.ppu.register_control, \h20) # 0, column, line)]],
            LAMBDA e : e.px.some),
         LAMBDA found :
    With(IF found = <<>>
         THEN [index |-> 69,
               px |-> [some |-> FALSE, color |-> 0, palette |-> 0,
                       behind |-> FALSE]]
         ELSE Head(found),
         LAMBDA first :
    With(IF first.px.color # 0 /\ ~(bg.color # 0 /\ first.px.behind)
         THEN [color |-> first.px.color, palette |-> first.px.palette]
         ELSE [color |-> bg.color, palette |-> bg.attribute],
         LAMBDA chosen :
    With(IF first.index = 0 /\ bg.color # 0 /\ first.px.color # 0
         THEN turn_on_sprite_0_hit(bg.m)
         ELSE bg.m,
         LAMBDA m1 :
            [m1 EXCEPT !.pixels =
                Append(@, IF chosen.color = 0 THEN m1.ppu.cram[0]
                          ELSE m1.ppu.cram[chosen.palette * 4
                                           + chosen.color])])))))

\* System::render, the pixels first..last of a scanline, in this order.
\* (The loop is unfolded by halves.)
RECURSIVE render_pixels(_, _, _, _, _)
render_pixels(m, sprites, line, first, last) ==
    IF m.panicked # "none"
    THEN m
    ELSE IF first = last
    THEN render_pixel(m, sprites, first, line)
    ELSE With(render_pixels(m, sprites, line, first, (first + last) \div 2),
              LAMBDA r :
                 render_pixels(r, sprites, line, (first + last) \div 2 + 1, last))

\* System::render, the rasterization of a scanline: its sprites are
\* collected, then its 256 pixels are made.
rasterize(m, line) ==
    render_pixels([m EXCEPT !.pixels = <<>>], sprites_on_scanline(m.ppu, line),
                  line, 0, 255)

\* A variant of start_of_frame that copies all of T into V.
start_of_frame_all_bits(m) ==
    [m EXCEPT !.ppu.current_render_address = m.ppu.canon_render_address]

\* System::render, between vblank and the first scanline: V keeps its
\* bits 10 and 4-0 and takes its other bits from T.
start_of_frame(m) ==
    [m EXCEPT !.ppu.current_render_address =
        BitOr(BitAnd(@, \h041F), BitAnd(m.ppu.canon_render_address, \h7BE0))]

\* The same, but a coarse Y of 31 goes to 0 without a carry.
end_of_scanline_wrapping(m) ==
    With(m.ppu.current_render_address + \h1000, LAMBDA v :
    With(IF v >= \h8000
         THEN (IF BitAnd(v, \h03E0) = 29 * 32
               THEN BitXor(BitAnd(BitAnd(v, \h7FFF), \hFC1F), \h0800)
               ELSE IF BitAnd(v, \h03E0) = 31 * 32
               THEN BitAnd(BitAnd(v, \h7FFF), \hFC1F)
               ELSE BitAnd(v, \h7FFF) + \h20)
         ELSE v,
         LAMBDA v1 :
            [m EXCEPT !.ppu.current_render_address =
                BitOr(BitAnd(v1, \h7BE0),
                      BitAnd(m.ppu.canon_render_address, \h041F))]))

\* System::render, the end of a scanline: V's fine Y goes up by one and
\* carries into the coarse Y, which goes from 29 to 0 with the vertical
\* nametable bit inverted; then V's horizontal bits are reloaded from T.
\* (V is below 0xF000 in the runs made here, so `+= 0x1000` stays in a
\* u16.)
end_of_scanline(m) ==
    With(m.ppu.current_render_address + \h1000, LAMBDA v :
    With(IF v >= \h8000
         THEN (IF BitAnd(v, \h03E0) = 29 * 32
               THEN BitXor(BitAnd(BitAnd(v, \h7FFF), \hFC1F), \h0800)
               ELSE BitAnd(v, \h7FFF) + \h20)
         ELSE v,
         LAMBDA v1 :
            [m EXCEPT !.ppu.current_render_address =
                BitOr(BitAnd(v1, \h7BE0),
                      BitAnd(m.ppu.canon_render_address, \h041F))]))

-----------------------------------------------------------------------------
(* The state machine. *)

Init ==
    \E c \in TestCases :
        /\ a = c.cpu.a
        /\ x = c.cpu.x
        /\ y = c.cpu.y
        /\ s = c.cpu.s
        /\ p = c.cpu.p
        /\ pc = c.cpu.pc
        /\ ram = c.ram
        /\ overridden = c.overridden
        /\ panicked = "none"
        /\ panic_message = <<>>
        /\ overflow_checks = "either"
        /\ trace = <<>>
        /\ ppu = PPU_new
        /\ cartridge = Cartridge_new("Horizontal")
        /\ apu = [k \in {} |-> 0]
        /\ controllers = [i \in 0 .. 1 |-> Controller_default]
        /\ driver = <<>>
        /\ ppu_trace = <<>>

\* The machine a step starts from, in a build with or without overflow checks.
Machine(checks) ==
    [a |-> a, x |-> x, y |-> y, s |-> s, p |-> p, pc |-> pc, ram |-> ram,
     writes |-> <<>>, panicked |-> "none", message |-> <<>>, overflowed |-> FALSE,
     checks |-> checks]

\* One call of cpu.step(&mut ramputer) by the host, which traces the Cpu
\* state first.  A step that panics ends the process.  (The host's own
\* changes of PC, at the addresses of its test binary, are not part of it.)
Step ==
    /\ panicked = "none"
    /\ Len(trace) < MaxSteps
    /\ \E checks \in (IF overflow_checks = "either" THEN BOOLEAN
                      ELSE {overflow_checks = "on"}) :
         With(step(Machine(checks)), LAMBDA r :
            /\ panicked' = r.panicked
            /\ panic_message' = r.message
            /\ IF r.panicked = "none"
               THEN /\ a' = r.a
                    /\ x' = r.x
                    /\ y' = r.y
                    /\ s' = r.s
                    /\ p' = r.p
                    /\ pc' = r.pc
                    /\ ram' = r.ram
               ELSE UNCHANGED <<a, x, y, s, p, pc, ram>>
            /\ overflow_checks' =
                 IF r.overflowed THEN (IF checks THEN "on" ELSE "off")
                 ELSE overflow_checks
            /\ trace' = Append(trace,
                 [a |-> a, x |-> x, y |-> y, s |-> s, p |-> p, pc |-> pc,
                  ram |-> ram, opcode |-> read_byte(ram, pc),
                  writes |-> IF r.panicked = "none" THEN r.writes ELSE <<>>])
            /\ UNCHANGED <<overridden, ppu, cartridge, apu, controllers, driver,
                           ppu_trace>>)

\* The routine the opcode at PC selects.
fetched == routine(read_byte(ram, pc))

\* The arms of the match in Cpu::step, grouped by the routine they call.
StepAluOperation ==
    /\ fetched = "perform_alu_operation"
    /\ Step

StepLogic ==
    /\ fetched \in {"or_accumulator", "and_accumulator", "xor_accumulator",
                    "bit_test"}
    /\ Step

StepShift ==
    /\ fetched \in {"arithmetic_shift_left", "logical_shift_right",
                    "rotate_left", "rotate_right"}
    /\ Step

StepIncDec ==
    /\ fetched \in {"decrement", "increment"}
    /\ Step

StepLoadStore ==
    /\ fetched \in {"load", "store", "transfer", "txs"}
    /\ Step

StepFlag ==
    /\ fetched \in {"clear_bit", "set_bit", "nop"}
    /\ Step

StepBranch ==
    /\ fetched = "handle_branch_operation"
    /\ Step

StepJump ==
    /\ fetched \in {"jsr", "jmp", "jmp_indirect"}
    /\ Step

StepRts ==
    /\ fetched = "rts"
    /\ Step

StepStack ==
    /\ fetched \in {"php", "pha", "plp", "pla"}
    /\ Step

\* BRK is `todo!()`; a byte the match does not list is `panic!`.
StepUnknownOpcode ==
    /\ fetched \in {"brk", "unknown_opcode"}
    /\ Step

Next ==
    \/ StepAluOperation
    \/ StepLogic
    \/ StepShift
    \/ StepIncDec
    \/ StepLoadStore
    \/ StepFlag
    \/ StepBranch
    \/ StepJump
    \/ StepRts
    \/ StepStack
    \/ StepUnknownOpcode

Spec == Init /\ [][Next]_vars

-----------------------------------------------------------------------------
(* The PPU as its callers drive it: Devices::read_byte and write_byte for  *)
(* the CPU's accesses to 0x2000-0x3FFF, System::render for the start and   *)
(* the end of vblank and for the sprite-0 hit.  The callers' sequence of   *)
(* calls is the input; a call that panics ends the process.                *)

\* One call: its kind, and the CPU address and the data byte where it has
\* them.
access(kind, address, data) ==
    [kind |-> kind, address |-> address, data |-> data]

\* The two writes with which a program points PPUADDR at a PPU-bus address.
set_address(address) ==
    <<access("write", \h2006, address \div 256),
      access("write", \h2006, address % 256)>>

\* Calls that are run in every order, up to MaxPpuOps of them.
PpuAlphabet ==
    {access("read", \h3FFA, 0), access("read", \h2007, 0),
     access("read", \h2005, 0),
     access("write", \h2000, \h84), access("write", \h2005, \h7D),
     access("write", \h2006, \h3F), access("write", \h2007, \hAB),
     access("vblank_start", 0, 0), access("vblank_stop", 0, 0),
     access("turn_on_sprite_0_hit", 0, 0)}

\* Writes to PPUSCROLL and PPUADDR (and to mirrors of them), and writes to
\* the other ports.
ScrollAddressAlphabet ==
    {access("write", \h2005, \h7D), access("write", \h3FF5, \hA2),
     access("write", \h2006, \h3F), access("write", \h200E, \hE5)}
OtherPortAlphabet ==
    {access("write", \h2001, \h1E), access("write", \h2002, \h99),
     access("write", \h2003, \h10), access("write", \h2004, \h55),
     access("write", \h2007, \hAB)}

\* PPU-bus addresses: nametables and their mirror, the palette and its
\* mirrors, the ends of the pattern tables and of the bus.
VramAddressSample ==
    {\h0000, \h1FFF, \h2000, \h2405, \h2800, \h2C05, \h3005, \h3EFF,
     \h3F00, \h3F01, \h3F10, \h3F1F, \h3FFF}

\* Every sequence of at most n elements of S.
SeqsUpTo(S, n) == UNION {[1 .. k -> S] : k \in 0 .. n}

\* A program that stores a byte at a PPU-bus address.
store_at(address, data) ==
    set_address(address) \o <<access("write", \h2007, data)>>

\* A program that reads PPUDATA twice from a PPU-bus address on.
load_from(address) ==
    set_address(address)
    \o <<access("read", \h2007, 0), access("read", \h2007, 0)>>

\* The same, but the scanline is ended before the CPU steps.
scanline_cpu_last(line, batch) ==
    <<access("rasterize", line, 0), access("end_of_scanline", line, 0)>>
    \o batch

\* System::render, one turn of the loop over the scanlines: the scanline is
\* rasterized, the CPU steps (its accesses to the devices are the batch),
\* the scanline is ended.
scanline(line, batch) ==
    <<access("rasterize", line, 0)>> \o batch
    \o <<access("end_of_scanline", line, 0)>>

\* A program that writes the four OAM bytes of a sprite.
sprite_at(index, top, tile, attributes, left) ==
    <<access("write", \h2003, 4 * index), access("write", \h2004, top),
      access("write", \h2004, tile), access("write", \h2004, attributes),
      access("write", \h2004, left)>>

\* Sprites 0 and 1 for a scanline: tile 1 has pixels in its rows 0 and 7,
\* tile 3 has none.
SpriteSample ==
    {<<>>,
     sprite_at(0, 100, 1, \h00, 50),
     sprite_at(0, 100, 1, \h20, 50),
     sprite_at(0, 100, 1, \hC0, 250),
     sprite_at(0, 100, 3, \h00, 50) \o sprite_at(1, 100, 1, \h00, 50),
     sprite_at(0, 10, 1, \h00, 50) \o sprite_at(1, 100, 1, \h00, 50),
     sprite_at(0, 100, 2, \h00, 54) \o sprite_at(1, 100, 1, \h00, 50)}

\* Backgrounds for a scanline: rows 0, 2 and 3 of tile 0 (row 3 has no
\* pixels), tile 2 (all pixels) in column 6, a fine X scroll.
BackgroundSample ==
    {<<>>,
     set_address(\h2000),
     set_address(\h3000),
     store_at(\h2006, \h02) \o set_address(\h0000),
     <<access("write", \h2005, \h03), access("read", \h2002, 0)>>}

\* Sprites written into an OAM whose 64 sprites all lie on the scanlines
\* 1 to 8 at the left edge: sprite 8 and sprite 9 moved to the right with
\* tile 1, sprites below index 8 moved off these scanlines.
CrowdSample ==
    {<<>>,
     sprite_at(8, 0, 1, \h00, 100),
     sprite_at(3, 50, 0, \h00, 0) \o sprite_at(8, 0, 1, \h00, 100),
     sprite_at(8, 7, 1, \h00, 100) \o sprite_at(9, 0, 1, \h00, 120),
     sprite_at(0, 200, 0, \h00, 0) \o sprite_at(5, 8, 0, \h00, 0)
     \o sprite_at(9, 0, 1, \h00, 120)}

\* A program that gives the 32 palette RAM entries values of their own
\* (entry 0 through the mirror at 0x3F20).
palette_fill ==
    set_address(\h3F01)
    \o [i \in 1 .. 32 |->
            access("write", \h2007, IF i = 32 THEN \h0F ELSE \h20 + i)]

\* Sprites 0 and 1 that overlap: the first behind the background, the
\* first without pixels and the second behind the background.
OverlapSample ==
    {sprite_at(0, 100, 1, \h21, 50) \o sprite_at(1, 100, 2, \h02, 52),
     sprite_at(0, 100, 3, \h00, 50) \o sprite_at(1, 100, 1, \h23, 50)}

\* A program that sets all 15 bits of T and V: the second write to
\* PPUSCROLL sets bit 14, the two writes to PPUADDR set the other bits.
set_render_address(v) ==
    <<access("write", \h2005, \h00), access("write", \h2005, v \div 4096)>>
    \o set_address(v % 16384)

\* Accesses of the CPU during a scanline that change T's horizontal bits
\* (and one that does not).
ScrollBatchSample ==
    {<<>>,
     <<access("write", \h2005, \h48)>>,
     <<access("read", \h2002, 0), access("write", \h2005, \hFD)>>,
     <<access("write", \h2006, \h24)>>,
     set_address(\h2405),
     <<access("write", \h2001, \h1E)>>}

\* Key events of the main loop: the buttons of controller 0 that go down.
KeySample ==
    {<<>>,
     <<access("key", \h01, 1)>>,
     <<access("key", \h02, 1), access("key", \h08, 1)>>,
     <<access("key", \h01, 1), access("key", \h04, 1),
       access("key", \h10, 1), access("key", \h40, 1)>>,
     <<access("key", \h80, 1), access("key", \h20, 1),
       access("key", \h01, 1), access("key", \h01, 0)>>}

\* Source pages of an OAM DMA: work RAM and its mirrors, the PPU ports,
\* 0x4000-0x40FF, and the cartridge up to its last page.
DmaPageSample ==
    {\h00, \h02, \h0A, \h1F, \h20, \h40, \h41, \h80, \hC1, \hFF}

\* CPU addresses from 0x4018 on.
CartridgeAddressSample ==
    {\h4018, \h5000, \h7FFF, \h8000, \h8001, \hC100, \hFF00, \hFFFF}

PpuCases ==
    \* calls in every order
    {[mirroring_type |-> "Horizontal", script |-> sc] :
        sc \in SeqsUpTo(PpuAlphabet, MaxPpuOps)}
    \* scroll and address writes, a status read, two more writes
    \cup {[mirroring_type |-> "Vertical",
           script |-> pre \o <<access("read", \h2002, 0)>> \o post] :
            pre \in SeqsUpTo({access("write", \h2005, \h7D),
                              access("write", \h2006, \h3F)}, MaxPpuOps),
            post \in [1 .. 2 -> ScrollAddressAlphabet \cup OtherPortAlphabet]}
    \* PPUDATA accesses from an address on, with and without a write of
    \* the 32-byte stride to PPUCTRL
    \cup {[mirroring_type |-> "Horizontal",
           script |-> pre \o set_address(address) \o run] :
            pre \in {<<>>, <<access("write", \h2000, \h04)>>},
            address \in VramAddressSample,
            run \in [1 .. MaxPpuOps ->
                       {access("read", \h2007, 0),
                        access("write", \h2007, \h5A)}]}
    \* one or two stores, then loads from the address or from an alias
    \cup UNION {
           {[mirroring_type |-> mt,
             script |-> store_at(address, \hAB) \o second \o load_from(from)] :
               second \in {<<>>} \cup {store_at(BitXor(address, flip), \hCD) :
                                           flip \in {\h400, \h800}},
               from \in {BitXor(address, flip) :
                           flip \in {0, \h20, \hE0, \h400, \h800}}} :
           mt \in MirroringType,
           address \in VramAddressSample \ {\h0000, \h1FFF}}
    \* work RAM and OAM are filled, OAMADDR is set, a page goes through
    \* the OAM DMA
    \cup {[mirroring_type |-> "Horizontal",
           script |-> fill \o oam_address
                      \o <<access("write", \h4014, page)>>] :
            fill \in {<<>>,
                      <<access("write", \h0200, \h11),
                        access("write", \h02FF, \h22),
                        access("write", \h2004, \h66)>>,
                      <<access("write", \h0A01, \h33),
                        access("write", \h1F00, \h44),
                        access("write", \h00FF, \h55)>>},
            oam_address \in {<<>>, <<access("write", \h2003, \h05)>>,
                             <<access("write", \h2003, \hFF)>>},
            page \in DmaPageSample}
    \* OAMDATA is read
    \cup {[mirroring_type |-> "Horizontal",
           script |-> fill \o <<access("read", address, 0)>>] :
            fill \in {<<>>,
                      <<access("write", \h2003, \h10),
                        access("write", \h2004, \h77),
                        access("write", \h2003, \h10)>>},
            address \in {\h2004, \h200C, \h3FFC}}
    \* keys go down, the controllers are strobed, a key may change while
    \* the strobe is high, and the controllers are read
    \cup {[mirroring_type |-> "Horizontal",
           script |-> keys \o <<access("write", \h4016, \h01)>> \o late
                      \o <<access("write", \h4016, low)>> \o reads] :
            keys \in KeySample,
            late \in {<<>>, <<access("key", \h02, 1)>>,
                      <<access("key", \h02, 1),
                        access("read", \h4016, 0)>>},
            low \in {\h00, \hFE},
            reads \in [1 .. 2 -> {access("read", \h4016, 0),
                                  access("read", \h4017, 0)}]
                      \cup {[i \in 1 .. MaxPadReads |->
                                access("read", address, 0)] :
                               address \in {\h4016, \h4017}}
                      \cup {[i \in 1 .. MaxPadReads + 2 |->
                                access("read", \h4016 + (i % 2), 0)]}
                      \cup {<<access("read", \h4016, 0),
                              access("read", \h4016, 0),
                              access("write", \h4016, \h01),
                              access("write", \h4016, \h00),
                              access("read", \h4016, 0),
                              access("read", \h4017, 0)>>}}
    \* a byte is written to the cartridge's range, between two reads
    \cup {[mirroring_type |-> "Horizontal",
           script |-> before \o <<access("read", address, 0),
                                  access("write", address, data),
                                  access("read", address, 0)>>] :
            before \in {<<>>,
                        <<access("write", \h0005, \h77),
                          access("write", \h2004, \h66),
                          access("key", \h01, 1),
                          access("write", \h4016, \h01),
                          access("write", \h4000, \h3C)>>},
            address \in CartridgeAddressSample,
            data \in {\h00, \h5A}}
    \* a write-only port is read, at every mirror kind
    \cup {[mirroring_type |-> "Horizontal",
           script |-> before \o <<access("read", address, 0)>>] :
            before \in {<<>>,
                        <<access("write", \h2006, \h21)>>,
                        <<access("write", \h2003, \h05),
                          access("write", \h2005, \h7D),
                          access("turn_on_sprite_0_hit", 0, 0)>>,
                        set_address(\h0000)
                        \o <<access("read", \h2007, 0)>>},
            address \in {\h2000, \h2001, \h2003, \h2005, \h2006,
                         \h2008, \h2ABD, \h3FF9, \h3FFB, \h3FFE}}
    \* a scanline with sprites over a background, then STATUS is read
    \cup {[mirroring_type |-> "Horizontal",
           script |-> sprites \o background
                      \o scanline(line, <<access("read", \h2002, 0)>>)] :
            sprites \in SpriteSample, background \in BackgroundSample,
            line \in {100, 101, 108}}
    \* a scanline with more than eight sprites, the sprites' palette entry
    \* for colour 1 set
    \cup {[mirroring_type |-> "Horizontal",
           script |-> store_at(\h3F11, \h2A) \o sprites
                      \o scanline(line, <<>>)] :
            sprites \in CrowdSample, line \in {0, 1, 8, 9}}
    \* a scanline with sprites over a background, each palette RAM entry
    \* with a value of its own, palette 1 for the tiles 6 and 7
    \cup {[mirroring_type |-> "Horizontal",
           script |-> palette_fill \o store_at(\h23C1, \hE4)
                      \o sprites \o background \o scanline(line, <<>>)] :
            sprites \in SpriteSample \cup OverlapSample,
            background \in BackgroundSample,
            line \in {101, 108}}
    \* a scanline from a V with fine Y, coarse Y and nametable bits chosen
    \cup {[mirroring_type |-> "Vertical",
           script |-> set_render_address(4096 * fine + 1024 * nametable
                                         + 32 * coarse + 5)
                      \o scanline(17, <<>>)] :
            fine \in {0, 6, 7}, coarse \in {0, 29, 30, 31},
            nametable \in 0 .. 3}
    \* all bits of T and V set, then STATUS read and PPUSCROLL written twice
    \cup {[mirroring_type |-> "Horizontal",
           script |-> set_render_address(v)
                      \o <<access("read", \h2002, 0),
                           access("write", \h2005, first),
                           access("write", \h2005, second)>>] :
            v \in {\h0000, \h2C05, \h5BEA, \h7FFF},
            first \in {\h00, \h7D, \hA2, \hFF},
            second \in {\h00, \h7D, \hA2, \hFF}}
    \* PPUDATA accesses from the top of the 15 bits of V, then a scanline
    \cup {[mirroring_type |-> "Horizontal",
           script |-> set_render_address(v) \o accesses
                      \o (IF v = \h7FFF THEN after ELSE <<>>)] :
            v \in {\h3FFF, \h7FE0, \h7FFE, \h7FFF},
            accesses \in {<<access("write", \h2007, \h12)>>,
                          <<access("read", \h2007, 0)>>,
                          <<access("read", \h2007, 0),
                            access("write", \h2007, \h12)>>},
            after \in {<<>>, scanline(5, <<>>)}}
    \* a scanline from a V and a fine X chosen
    \cup {[mirroring_type |-> "Vertical",
           script |-> <<access("write", \h2005, fine_x),
                        access("write", \h2005, vertical \div 4096)>>
                      \o set_address((vertical + 1024 * nametable + coarse)
                                     % 16384)
                      \o scanline(40, <<>>)] :
            fine_x \in {0, 3, 7}, vertical \in {\h0000, \h5920},
            nametable \in 0 .. 1, coarse \in {0, 1, 30, 31}}
    \* the CPU's accesses during vblank, then the first two scanlines of
    \* the frame
    \cup {[mirroring_type |-> "Vertical",
           script |-> before \o moves
                      \o <<access("start_of_frame", 0, 0)>>
                      \o scanline(0, <<>>) \o scanline(1, <<>>)] :
            before \in {set_address(\h2000),
                        set_render_address(\h5925)
                        \o <<access("read", \h2002, 0),
                             access("write", \h2005, \h48),
                             access("write", \h2005, \h9B)>>},
            moves \in {<<>>,
                       <<access("read", \h2007, 0)>>,
                       <<access("write", \h2007, \h12)>>,
                       <<access("read", \h2007, 0),
                         access("write", \h2007, \h12)>>,
                       <<access("write", \h2006, \h24)>>,
                       set_address(\h241F)}}
    \* two scanlines, the CPU writing the scroll during the first
    \cup {[mirroring_type |-> "Vertical",
           script |-> before \o scanline(line, batch)
                      \o scanline(line + 1, <<>>)] :
            before \in {<<>>, set_address(\h6BBF)},
            batch \in ScrollBatchSample,
            line \in {0, 238}}
    \* the work RAM and 0x4000-0x4017 are written and read back
    \cup {[mirroring_type |-> "Horizontal",
           script |-> <<access("write", address, \h5A),
                        access("read", from, 0)>>] :
            address \in {\h0000, \h07FF, \h0800, \h1FFF, \h4000, \h4015,
                         \h4017},
            from \in {\h0000, \h07FF, \h17FF, \h4000, \h4015, \h4017}}

InitPpu ==
    \E c \in PpuCases :
        /\ a = new.a
        /\ x = new.x
        /\ y = new.y
        /\ s = new.s
        /\ p = new.p
        /\ pc = new.pc
        /\ ram = [k \in {} |-> 0]
        /\ overridden = FALSE
        /\ panicked = "none"
        /\ panic_message = <<>>
        /\ overflow_checks = "either"
        /\ trace = <<>>
        /\ ppu = PPU_new
        /\ cartridge = Cartridge_new(c.mirroring_type)
        /\ apu = [k \in {} |-> 0]
        /\ controllers = [i \in 0 .. 1 |-> Controller_default]
        /\ driver = c.script
        /\ ppu_trace = <<>>

\* The devices a call starts from.
Device ==
    [ram |-> ram, ppu |-> ppu, apu |-> apu, cartridge |-> cartridge,
     controllers |-> controllers, nmi_signals |-> <<>>,
     result |-> 0, pixels |-> <<>>, panicked |-> "none"]

\* The routine that a call reaches.  A write returns nothing.
perform(m, op) ==
    CASE op.kind = "read" -> Devices_read_byte(m, op.address)
      [] op.kind = "write" ->
            [Devices_write_byte(m, op.address, op.data) EXCEPT !.result = 0]
      [] op.kind = "key" -> key_event(m, op.address, op.data = 1)
      [] op.kind = "vblank_start" -> vblank_start(m)
      [] op.kind = "vblank_stop" -> vblank_stop(m)
      [] op.kind = "turn_on_sprite_0_hit" -> turn_on_sprite_0_hit(m)
      [] op.kind = "rasterize" -> rasterize(m, op.address)
      [] op.kind = "end_of_scanline" -> end_of_scanline(m)
      [] op.kind = "start_of_frame" -> start_of_frame(m)

\* The next call is made.  The devices keep what the routine had written
\* when it panicked.
Drive ==
    /\ panicked = "none"
    /\ driver # <<>>
    /\ With(perform(Device, Head(driver)), LAMBDA r :
          /\ ram' = r.ram
          /\ ppu' = r.ppu
          /\ apu' = r.apu
          /\ cartridge' = r.cartridge
          /\ controllers' = r.controllers
          /\ panicked' = r.panicked
          /\ ppu_trace' = Append(ppu_trace,
                [op |-> Head(driver), ram |-> ram, ppu |-> ppu, apu |-> apu,
                 cartridge |-> cartridge, controllers |-> controllers,
                 result |-> r.result, pixels |-> r.pixels,
                 nmi_signals |-> r.nmi_signals])
          /\ driver' = Tail(driver))
    /\ UNCHANGED <<a, x, y, s, p, pc, panic_message, overflow_checks,
                   overridden, trace>>

\* Devices::read_byte for 0x2000-0x3FFF.
RegisterRead ==
    /\ driver # <<>> /\ Head(driver).kind = "read"
    /\ Head(driver).address \in \h2000 .. \h3FFF
    /\ Drive

\* Devices::write_byte for 0x2000-0x3FFF.
RegisterWrite ==
    /\ driver # <<>> /\ Head(driver).kind = "write"
    /\ Head(driver).address \in \h2000 .. \h3FFF
    /\ Drive

\* Devices::read_byte for the work RAM, 0x4000-0x4017 and the cartridge.
DeviceRead ==
    /\ driver # <<>> /\ Head(driver).kind = "read"
    /\ Head(driver).address \notin \h2000 .. \h3FFF
    /\ Drive

\* Devices::write_byte for the work RAM, 0x4000-0x4017 and the cartridge.
DeviceWrite ==
    /\ driver # <<>> /\ Head(driver).kind = "write"
    /\ Head(driver).address \notin \h2000 .. \h3FFF
    /\ Drive

\* The main loop takes a key event.
KeyEvent ==
    /\ driver # <<>> /\ Head(driver).kind = "key"
    /\ Drive

\* System::render, entering vblank.
VblankStart ==
    /\ driver # <<>> /\ Head(driver).kind = "vblank_start"
    /\ Drive

\* System::render, leaving vblank.
VblankStop ==
    /\ driver # <<>> /\ Head(driver).kind = "vblank_stop"
    /\ Drive

\* System::render, on a sprite-0 pixel over a background pixel.
TurnOnSprite0Hit ==
    /\ driver # <<>> /\ Head(driver).kind = "turn_on_sprite_0_hit"
    /\ Drive

\* System::render, the sprites and the 256 pixels of a scanline.
Rasterize ==
    /\ driver # <<>> /\ Head(driver).kind = "rasterize"
    /\ Drive

\* System::render, after the CPU steps of a scanline.
EndOfScanline ==
    /\ driver # <<>> /\ Head(driver).kind = "end_of_scanline"
    /\ Drive

\* System::render, after vblank and before the first scanline.
StartOfFrame ==
    /\ driver # <<>> /\ Head(driver).kind = "start_of_frame"
    /\ Drive

NextPpu ==
    \/ Rasterize
    \/ EndOfScanline
    \/ StartOfFrame
    \/ RegisterRead
    \/ RegisterWrite
    \/ DeviceRead
    \/ DeviceWrite
    \/ KeyEvent
    \/ VblankStart
    \/ VblankStop
    \/ TurnOnSprite0Hit

SpecPpu == InitPpu /\ [][NextPpu]_vars

-----------------------------------------------------------------------------
(* What the trace says about the last step. *)

Stepped == trace # <<>>
last == trace[Len(trace)]
\* The step before the last.
prev == trace[Len(trace) - 1]
\* The last step ran to its end (it did not panic).
Completed == Stepped /\ panicked = "none"

TypeOK ==
    /\ a \in Byte /\ x \in Byte /\ y \in Byte /\ s \in Byte /\ p \in Byte
    /\ pc \in 0 .. 65535
    /\ \A k \in DOMAIN ram : k \in 0 .. 65535 /\ ram[k] \in Byte
    /\ panicked \in {"none", "overflow", "todo", "unknown_opcode"}

-----------------------------------------------------------------------------
(* Properties.  They are stated over the last trace entry (the machine as   *)
(* the last step found it) and the current state (as the step left it),    *)
(* with plain arithmetic in place of the model's bit operations.           *)

\* Bit k of v.
Bit(v, k) == (v \div (2 ^ k)) % 2

\* A byte read as a two's-complement number.
Signed(v) == IF v >= 128 THEN v - 256 ELSE v

\* The trace entry t as a machine about to step, in a build that wraps.
AsMachine(t) ==
    [a |-> t.a, x |-> t.x, y |-> t.y, s |-> t.s, p |-> t.p, pc |-> t.pc,
     ram |-> t.ram, writes |-> <<>>, panicked |-> "none", message |-> <<>>,
     overflowed |-> FALSE, checks |-> FALSE]

\* The same once the opcode has been fetched.
Fetched(t) == [AsMachine(t) EXCEPT !.pc = (t.pc + 1) % 65536]

\* The operand byte M that the ALU instruction of trace entry t addresses.
AluOperand(t) ==
    With(am_new(instructions[t.opcode][3], Fetched(t)),
         LAMBDA n : get_value(n.am, n.cpu))

\* The opcodes of ADC, SBC and the compares, in every addressing mode.
AdcOpcodes == {\h61, \h65, \h69, \h6D, \h71, \h75, \h79, \h7D}
SbcOpcodes == {\hE1, \hE5, \hE9, \hED, \hF1, \hF5, \hF9, \hFD}
CmpOpcodes == {\hC1, \hC5, \hC9, \hCD, \hD1, \hD5, \hD9, \hDD}
CpxOpcodes == {\hE0, \hE4, \hEC}
CpyOpcodes == {\hC0, \hC4, \hCC}

\* The 9-bit sum of ADC and SBC in trace entry t: A + M + C, A + (255 - M) + C.
Sum9(t) ==
    IF t.opcode \in AdcOpcodes
    THEN t.a + AluOperand(t) + Bit(t.p, 0)
    ELSE t.a + (255 - AluOperand(t)) + Bit(t.p, 0)

\* C1: after ADC, A = (A + M + C) mod 256 and after SBC,
\* A = (A + (255 - M) + C) mod 256; C is set iff the 9-bit sum exceeds 0xFF,
\* Z iff the 8-bit result is 0, and N is bit 7 of the 8-bit result.
C1_AdcSbcResultAndFlags ==
    (Completed /\ last.opcode \in AdcOpcodes \cup SbcOpcodes) =>
        /\ a = Sum9(last) % 256
        /\ Bit(p, 0) = 1 <=> Sum9(last) > 255
        /\ Bit(p, 1) = 1 <=> Sum9(last) % 256 = 0
        /\ Bit(p, 7) = Bit(Sum9(last) % 256, 7)

\* An ADC #$01 on A = 0xFF with carry in has run: the sum is 0x101.
C1_Witness ==
    /\ Completed
    /\ last.opcode = \h69 /\ last.a = \hFF /\ AluOperand(last) = \h01
    /\ Bit(last.p, 0) = 1
    /\ a = \h01 /\ Bit(p, 0) = 1

\* The exact signed sum of ADC and SBC in trace entry t.
SignedSum(t) ==
    IF t.opcode \in AdcOpcodes
    THEN Signed(t.a) + Signed(AluOperand(t)) + Bit(t.p, 0)
    ELSE Signed(t.a) + Signed(255 - AluOperand(t)) + Bit(t.p, 0)

\* C2: after ADC or SBC, V is set exactly when the signed sum of A, the
\* effective addend and the carry-in lies outside -128..127; ADC #$50 with
\* A = 0x50 and C = 0 yields A = 0xA0, N = 1, V = 1, C = 0, Z = 0.
C2_SignedOverflow ==
    (Completed /\ last.opcode \in AdcOpcodes \cup SbcOpcodes) =>
        /\ Bit(p, 6) = 1 <=> SignedSum(last) \notin -128 .. 127
        /\ (/\ last.opcode = \h69 /\ AluOperand(last) = \h50
            /\ last.a = \h50 /\ Bit(last.p, 0) = 0)
           => /\ a = \hA0
              /\ Bit(p, 7) = 1 /\ Bit(p, 6) = 1
              /\ Bit(p, 0) = 0 /\ Bit(p, 1) = 0

\* ADC #$50 on A = 0x50 without carry in has run and V is set.
C2_Witness ==
    /\ Completed
    /\ last.opcode = \h69 /\ AluOperand(last) = \h50
    /\ last.a = \h50 /\ Bit(last.p, 0) = 0
    /\ Bit(p, 6) = 1

\* SBC #$F0 has run on A = 0x50 with carry in.
SbcF0From50(t) ==
    /\ t.opcode = \hE9 /\ AluOperand(t) = \hF0
    /\ t.a = \h50 /\ Bit(t.p, 0) = 1

\* C3 as stated: SBC #$F0 with A = 0x50 and C = 1 yields A = 0x60, C = 0,
\* V = 1, N = 0, Z = 0.
C3_SbcBorrowAsStated ==
    (Completed /\ SbcF0From50(last)) =>
        /\ a = \h60
        /\ Bit(p, 0) = 0 /\ Bit(p, 6) = 1
        /\ Bit(p, 7) = 0 /\ Bit(p, 1) = 0

\* C3: SBC #$F0 with A = 0x50 and C = 1 yields A = 0x60, C = 0, N = 0,
\* Z = 0, and V = 0: 0x50 - 0xF0 is 80 - (-16) = 96, which a signed byte holds.
C3_SbcBorrow ==
    (Completed /\ SbcF0From50(last)) =>
        /\ a = \h60
        /\ Bit(p, 0) = 0 /\ Bit(p, 6) = 0
        /\ Bit(p, 7) = 0 /\ Bit(p, 1) = 0

\* SBC #$F0 on A = 0x50 with carry in has run, from a status with V and N set.
C3_Witness ==
    /\ Completed
    /\ SbcF0From50(last)
    /\ last.p = \hFF
    /\ a = \h60

\* The register a compare reads: A for CMP, X for CPX, Y for CPY.
CompareRegister(t) ==
    CASE t.opcode \in CmpOpcodes -> t.a
      [] t.opcode \in CpxOpcodes -> t.x
      [] t.opcode \in CpyOpcodes -> t.y

\* Trace entry t with the carry flag the other way.
CarryToggled(t) ==
    [t EXCEPT !.p = IF Bit(t.p, 0) = 1 THEN t.p - 1 ELSE t.p + 1]

\* C4: a compare leaves the register and memory unchanged and sets C iff
\* R >= M, Z iff R = M and N to bit 7 of (R - M) mod 256, and the same step
\* taken with the other incoming carry ends in the same state.
C4_Compare ==
    (Completed /\ last.opcode \in CmpOpcodes \cup CpxOpcodes \cup CpyOpcodes) =>
        /\ a = last.a /\ x = last.x /\ y = last.y
        /\ ram = last.ram /\ last.writes = <<>>
        /\ Bit(p, 0) = 1 <=> CompareRegister(last) >= AluOperand(last)
        /\ Bit(p, 1) = 1 <=> CompareRegister(last) = AluOperand(last)
        /\ Bit(p, 7) =
             Bit((CompareRegister(last) - AluOperand(last) + 256) % 256, 7)
        /\ With(step(AsMachine(CarryToggled(last))), LAMBDA r :
             /\ r.p = p /\ r.a = a /\ r.x = x /\ r.y = y /\ r.s = s
             /\ r.pc = pc /\ r.ram = ram)

\* CPX #$F0 on X = 0x50 has run with carry in clear: a borrow, so C is clear.
C4_Witness ==
    /\ Completed
    /\ last.opcode = \hE0 /\ last.x = \h50 /\ AluOperand(last) = \hF0
    /\ Bit(last.p, 0) = 0
    /\ Bit(p, 0) = 0 /\ Bit(p, 1) = 0 /\ x = \h50

\* The condition of the branch in trace entry t: BPL, BMI, BVC, BVS, BCC,
\* BCS, BNE, BEQ.
BranchTaken(t) ==
    CASE t.opcode = \h10 -> Bit(t.p, 7) = 0
      [] t.opcode = \h30 -> Bit(t.p, 7) = 1
      [] t.opcode = \h50 -> Bit(t.p, 6) = 0
      [] t.opcode = \h70 -> Bit(t.p, 6) = 1
      [] t.opcode = \h90 -> Bit(t.p, 0) = 0
      [] t.opcode = \hB0 -> Bit(t.p, 0) = 1
      [] t.opcode = \hD0 -> Bit(t.p, 1) = 0
      [] t.opcode = \hF0 -> Bit(t.p, 1) = 1

\* The operand byte of the instruction in trace entry t.
Operand(t) == read_byte(t.ram, (t.pc + 1) % 65536)

\* C5: a branch reads one signed offset; taken, PC is the address after the
\* operand plus the sign-extended offset, mod 65536; not taken, PC is the
\* address after the operand; no other register, flag or memory byte changes.
C5_Branch ==
    (Completed /\ last.opcode \in BranchOpcodes) =>
        /\ pc = IF BranchTaken(last)
                THEN (last.pc + 2 + Signed(Operand(last)) + 65536) % 65536
                ELSE (last.pc + 2) % 65536
        /\ a = last.a /\ x = last.x /\ y = last.y /\ s = last.s /\ p = last.p
        /\ ram = last.ram /\ last.writes = <<>>

\* A taken BNE with offset 0x80 at 0x0010 has run: the destination wraps
\* below address 0.
C5_Witness ==
    /\ Completed
    /\ last.opcode = \hD0 /\ last.pc = \h0010 /\ Operand(last) = \h80
    /\ BranchTaken(last)
    /\ pc = \hFF92

\* A taken branch whose opcode was fetched from 0x80FF, so that PC was
\* 0x8100 after the fetch, has run with this operand.
TakenAt8100(operand) ==
    /\ Completed
    /\ last.opcode \in BranchOpcodes /\ last.pc = \h80FF
    /\ BranchTaken(last)
    /\ Operand(last) = operand

\* C6 as stated: with PC = 0x8100 after the opcode fetch and the condition
\* true, operand 0xFE leaves PC = 0x80FE and operand 0x7F leaves PC = 0x8180.
C6_BranchRangeAsStated ==
    /\ TakenAt8100(\hFE) => pc = \h80FE
    /\ TakenAt8100(\h7F) => pc = \h8180

\* C6: with PC = 0x8100 after the opcode fetch and the condition true,
\* operand 0xFE leaves PC = 0x80FF (0x8101 - 2) and operand 0x7F leaves
\* PC = 0x8180 (0x8101 + 127).
C6_BranchRange ==
    /\ TakenAt8100(\hFE) => pc = \h80FF
    /\ TakenAt8100(\h7F) => pc = \h8180

\* The backward branch of C6 has run.
C6_Witness == TakenAt8100(\hFE) /\ pc = \h80FF

\* The last two steps were a JSR and an RTS located at the JSR's operand t.
JsrThenRts ==
    /\ Completed /\ Len(trace) >= 2
    /\ prev.opcode = \h20 /\ last.opcode = \h60
    /\ last.pc = read_byte(prev.ram, (prev.pc + 1) % 65536)
                 + 256 * read_byte(prev.ram, (prev.pc + 2) % 65536)

\* C7: a JSR at a with stack pointer s followed by the RTS at its target
\* leaves PC = a + 3 (mod 65536) and S = s; between the two the stack holds
\* the high byte of a + 2 at 0x0100 + s and its low byte at
\* 0x0100 + ((s - 1) mod 256).
C7_JsrRtsRoundTrip ==
    JsrThenRts =>
        /\ pc = (prev.pc + 3) % 65536
        /\ s = prev.s
        /\ last.s = (prev.s + 254) % 256
        /\ read_byte(last.ram, \h0100 + prev.s)
             = ((prev.pc + 2) % 65536) \div 256
        /\ read_byte(last.ram, \h0100 + ((prev.s + 255) % 256))
             = ((prev.pc + 2) % 65536) % 256

\* JSR $9000 at 0x8000 with S = 0xFF and the RTS at 0x9000 have run.
C7_Witness ==
    /\ JsrThenRts
    /\ prev.pc = \h8000 /\ prev.s = \hFF /\ last.pc = \h9000
    /\ pc = \h8003 /\ s = \hFF
    /\ read_byte(last.ram, \h01FF) = \h80
    /\ read_byte(last.ram, \h01FE) = \h02

\* The last two steps were a push (PHA, PHP) and a pull (PLA, PLP).
PushThenPull ==
    /\ Completed /\ Len(trace) >= 2
    /\ prev.opcode \in {\h48, \h08} /\ last.opcode \in {\h68, \h28}

\* The byte the push in trace entry t pushes: A for PHA, P for PHP.
Pushed(t) == IF t.opcode = \h48 THEN t.a ELSE t.p

\* C8: a push of b followed by a pop returns b and restores S, for every s
\* (S = 0x00 wraps to 0xFF); the push writes b to 0x0100 + s and nowhere
\* else.  PLA returns the popped byte in A; PLP returns it in P with bits 4
\* and 5 set.  The same is checked of push_byte and pop_byte themselves, for
\* every byte, from the machine as it stands.
C8_PushPop ==
    /\ PushThenPull =>
        /\ s = prev.s
        /\ last.s = (prev.s + 255) % 256
        /\ prev.writes = << <<\h0100 + prev.s, Pushed(prev)>> >>
        /\ \h0100 + prev.s \in \h0100 .. \h01FF
        /\ last.opcode = \h68 => a = Pushed(prev)
        /\ last.opcode = \h28 =>
             p = Pushed(prev) + 16 * (1 - Bit(Pushed(prev), 4))
                              + 32 * (1 - Bit(Pushed(prev), 5))
    /\ (Completed /\ last.opcode \in {\h48, \h08}) =>
        \A b \in Byte :
            With(push_byte(Machine(FALSE), b), LAMBDA pushed :
                /\ pushed.writes = << <<\h0100 + s, b>> >>
                /\ pushed.s = (s + 255) % 256
                /\ pop_byte(pushed).value = b
                /\ pop_byte(pushed).cpu.s = s)

\* PHA of 0xDF with S = 0x00 and then PLA have run: the pointer wrapped to
\* 0xFF and came back.
C8_Witness ==
    /\ PushThenPull
    /\ prev.opcode = \h48 /\ prev.a = \hDF /\ prev.s = \h00
    /\ last.opcode = \h68 /\ last.s = \hFF
    /\ s = \h00 /\ a = \hDF

\* The byte the pull in trace entry t pops.
Popped(t) == read_byte(t.ram, \h0100 + ((t.s + 1) % 256))

\* C9: in a run from construction without the register overrides, bit 5 of
\* P is 1 after every step, and every copy of P that PHP pushes has bit 5
\* set.
C9_StatusBit5 ==
    ~overridden =>
        /\ Bit(p, 5) = 1
        /\ (Completed /\ last.opcode = \h08) =>
             /\ last.writes = << <<\h0100 + last.s, last.p>> >>
             /\ Bit(read_byte(ram, \h0100 + last.s), 5) = 1

\* From construction, a PLP has popped a byte whose bit 5 is 0, a BIT has
\* tested an operand whose bit 5 is 0, and a PHP has then pushed P.
C9_Witness ==
    /\ ~overridden
    /\ Completed /\ Len(trace) >= 3
    /\ trace[Len(trace) - 2].opcode = \h28
    /\ Bit(Popped(trace[Len(trace) - 2]), 5) = 0
    /\ prev.opcode = \h24 /\ read_byte(prev.ram, Operand(prev)) = \hDF
    /\ last.opcode = \h08
    /\ Bit(read_byte(ram, \h0100 + last.s), 5) = 1

\* The RTS in trace entry t pops the address 0xFFFF.
RtsPopsFFFF(t) ==
    /\ t.opcode = \h60
    /\ read_byte(t.ram, \h0100 + ((t.s + 1) % 256)) = \hFF
    /\ read_byte(t.ram, \h0100 + ((t.s + 2) % 256)) = \hFF

\* C10 as stated: PC wraps modulo 65536.  No step fails on PC passing
\* 0xFFFF: a NOP fetched at 0xFFFF, an LDA # whose operand is at 0xFFFF and
\* an RTS that pops 0xFFFF all continue with PC = 0x0000.
C10_PcWrapsAsStated ==
    /\ panicked # "overflow"
    /\ (Stepped /\ last.opcode = \hEA /\ last.pc = \hFFFF) => pc = \h0000
    /\ (Stepped /\ last.opcode = \hA9 /\ last.pc = \hFFFE) => pc = \h0000
    /\ (Stepped /\ RtsPopsFFFF(last)) => pc = \h0000

\* What holds of C10: in a build without overflow checks those steps
\* continue with PC = 0x0000; in a build with them the step panics.
C10_PcWrapsUnchecked ==
    (Stepped /\ (\/ last.opcode = \hEA /\ last.pc = \hFFFF
                 \/ last.opcode = \hA9 /\ last.pc = \hFFFE
                 \/ RtsPopsFFFF(last))) =>
        \/ overflow_checks = "off" /\ panicked = "none" /\ pc = \h0000
        \/ overflow_checks = "on" /\ panicked = "overflow"

\* A step that fetched at 0xFFFF has panicked on the overflow.
C10_Witness ==
    /\ Stepped /\ last.pc = \hFFFF /\ last.opcode = \hEA
    /\ panicked = "overflow"

\* Step i of the trace fetched a byte that the match of step does not list.
Unlisted(i) == trace[i].opcode \notin DOMAIN instructions

\* Step i of the trace panicked and left the Cpu and the RAM to no later
\* step.
EndedAt(i) ==
    /\ i = Len(trace)
    /\ panicked # "none"
    /\ a = trace[i].a /\ x = trace[i].x /\ y = trace[i].y
    /\ s = trace[i].s /\ p = trace[i].p
    /\ ram = trace[i].ram

\* C26: a step onto a byte that is not in the dispatch table ends the
\* execution in a fatal error whose message holds the opcode byte and the
\* PC it was fetched from; the byte is not passed over and no later
\* instruction runs.
C26_UnknownOpcodeAsStated ==
    \A i \in 1 .. Len(trace) :
        Unlisted(i) =>
            /\ EndedAt(i)
            /\ panicked = "unknown_opcode"
            /\ \E k, l \in DOMAIN panic_message :
                  /\ k # l
                  /\ panic_message[k] = trace[i].opcode
                  /\ panic_message[l] = trace[i].pc

\* C26, what holds: such a step ends the execution, no later instruction
\* runs, and the message of the panic is formatted from the opcode byte
\* alone.  (In a build with overflow checks the fetch at 0xFFFF panics
\* before the byte is looked at.)
C26_UnknownOpcodeNamesOpcode ==
    \A i \in 1 .. Len(trace) :
        Unlisted(i) =>
            /\ EndedAt(i)
            /\ \/ panicked = "unknown_opcode"
                  /\ panic_message = <<trace[i].opcode>>
               \/ panicked = "overflow" /\ trace[i].pc = \hFFFF

\* The second step has fetched 0x02 at 0x0402, after LDA #$10.
C26_Witness ==
    /\ Len(trace) = 2 /\ last.opcode = \h02 /\ last.pc = \h0402
    /\ trace[1].opcode = \hA9 /\ a = \h10
    /\ panicked = "unknown_opcode"
    /\ panic_message = <<\h02>>

\* The opcode bytes of the 65C02 additions: BRA, STZ zp, STZ abs, PHX, PHY,
\* PLX, PLY, INA, DEA.
Additions65C02 == {\h80, \h64, \h9C, \hDA, \h5A, \hFA, \h7A, \h1A, \h3A}

\* C27: a step onto BRA (0x80), STZ (0x64, 0x9C), PHX (0xDA), PHY (0x5A),
\* PLX (0xFA), PLY (0x7A), INA (0x1A) or DEA (0x3A) decodes and executes
\* the instruction: it never ends in the unknown-opcode error.
C27_Additions65C02AsStated ==
    \A i \in 1 .. Len(trace) :
        trace[i].opcode \in Additions65C02 =>
            ~(i = Len(trace) /\ panicked = "unknown_opcode")

\* C27, what holds: the match of step lists none of these nine bytes; a
\* step onto any of them ends in the unknown-opcode error.
C27_Additions65C02Unlisted ==
    \A i \in 1 .. Len(trace) :
        trace[i].opcode \in Additions65C02 =>
            /\ EndedAt(i)
            /\ \/ panicked = "unknown_opcode"
                  /\ panic_message = <<trace[i].opcode>>
               \/ panicked = "overflow" /\ trace[i].pc = \hFFFF

\* The first step has fetched BRA at 0x0400.
C27_Witness ==
    /\ Len(trace) = 1 /\ last.opcode = \h80 /\ last.pc = \h0400
    /\ panicked = "unknown_opcode"
    /\ panic_message = <<\h80>>

\* The second step has fetched DEA at 0x0401, behind a NOP.
C27_WitnessLater ==
    /\ Len(trace) = 2 /\ last.opcode = \h3A /\ last.pc = \h0401
    /\ trace[1].opcode = \hEA
    /\ panicked = "unknown_opcode"

-----------------------------------------------------------------------------
(* Properties of the PPU.  They are stated over the last entry of          *)
(* ppu_trace (the call, the PPU as the call found it, what it returned)    *)
(* and the current state (the PPU as the call left it).                    *)

Called == ppu_trace # <<>>
call == ppu_trace[Len(ppu_trace)]
\* The last call returned (it did not panic).
Returned == Called /\ panicked = "none"
\* The PPU port that the call of trace entry t accesses.
Port(t) == t.op.address % 8
ReadOf(t, n) ==
    t.op.kind = "read" /\ t.op.address \in \h2000 .. \h3FFF /\ Port(t) = n
WriteOf(t, n) ==
    t.op.kind = "write" /\ t.op.address \in \h2000 .. \h3FFF /\ Port(t) = n

\* The CPU has serviced an NMI that found it as Cpu::new left it: PC high,
\* PC low and P (bit 5 set, B clear) are on the stack, I is set and PC is
\* the vector at 0xFFFA/0xFFFB.
NmiServiced ==
    /\ s = (new.s + 256 - 3) % 256
    /\ read_byte(ram, \h0100 + new.s) = new.pc \div 256
    /\ read_byte(ram, \h0100 + ((new.s + 255) % 256)) = new.pc % 256
    /\ Bit(read_byte(ram, \h0100 + ((new.s + 254) % 256)), 5) = 1
    /\ Bit(read_byte(ram, \h0100 + ((new.s + 254) % 256)), 4) = 0
    /\ Bit(p, 2) = 1
    /\ pc = read_byte(ram, \hFFFA) + 256 * read_byte(ram, \hFFFB)

\* C11 as stated: NMI on vblank.  A write to CONTROL with bit 7 set takes
\* effect, and a vblank start that finds CONTROL bit 7 set raises the NMI
\* level and has the CPU service the NMI (pushes, I flag, vector) before
\* its next instruction.
C11_NmiOnVblankAsStated ==
    /\ (Called /\ WriteOf(call, 0) /\ Bit(call.op.data, 7) = 1) =>
          Returned /\ Bit(ppu.register_control, 7) = 1
    /\ (Called /\ call.op.kind = "vblank_start"
           /\ Bit(call.ppu.register_control, 7) = 1) =>
          Returned /\ call.nmi_signals = <<TRUE>> /\ NmiServiced

\* What holds of C11: every call that hands a level to Cpu::set_nmi_signal
\* (a CONTROL write, a vblank start, a vblank stop) ends in the `todo!()`
\* panic, and CONTROL bit 7 is never set when a call is made.
C11_NmiSignalPanics ==
    Called =>
        /\ Bit(call.ppu.register_control, 7) = 0
        /\ (WriteOf(call, 0) \/ call.op.kind \in {"vblank_start", "vblank_stop"})
              => panicked = "todo" /\ Len(call.nmi_signals) = 1

\* A write of 0x84 to CONTROL has panicked with bit 7 stored.
C11_Witness ==
    /\ Called /\ WriteOf(call, 0) /\ call.op.data = \h84
    /\ panicked = "todo" /\ ppu.register_control = \h84

\* C12 as stated: NMI level.  After every CONTROL write, vblank start and
\* vblank stop the level forwarded to the CPU is (vblank in progress AND
\* CONTROL bit 7), and the call returns.
C12_NmiLevelAsStated ==
    (Called /\ (WriteOf(call, 0)
                \/ call.op.kind \in {"vblank_start", "vblank_stop"})) =>
        /\ Returned
        /\ call.nmi_signals =
              <<ppu.vblank_in_progress /\ Bit(ppu.register_control, 7) = 1>>

\* What the code does on a read of port 2: the byte returned has bit 7 =
\* the vblank flag and bit 6 = the sprite-0-hit flag as the read found
\* them and bits 5-0 zero; the read leaves the vblank flag clear and the
\* sprite-0-hit flag as it was.
StatusReadContract ==
    (Called /\ ReadOf(call, 2)) =>
        /\ Returned
        /\ call.result = (IF call.ppu.vblank_status_flag THEN 128 ELSE 0)
                         + (IF call.ppu.sprite_0_hit_flag THEN 64 ELSE 0)
        /\ ~ppu.vblank_status_flag
        /\ ppu.sprite_0_hit_flag = call.ppu.sprite_0_hit_flag

Back(n) == ppu_trace[Len(ppu_trace) - n]

\* Bits lo .. hi of v.
Bits(v, lo, hi) == (v \div (2 ^ lo)) % (2 ^ (hi - lo + 1))

\* The PPU went from b to c as by a write of d to port 5 taken as the X
\* scroll: scroll X, fine X and T's coarse X (bits 4-0) are set from d.
TakenAsScrollX(b, c, d) ==
    /\ c.register_scroll_x = d /\ c.register_scroll_y = b.register_scroll_y
    /\ c.fine_scroll_x = d % 8
    /\ Bits(c.canon_render_address, 0, 4) = d \div 8
    /\ Bits(c.canon_render_address, 5, 14) = Bits(b.canon_render_address, 5, 14)
    /\ c.current_render_address = b.current_render_address

\* ... taken as the Y scroll: scroll Y, T's coarse Y (bits 9-5) and fine Y
\* (bits 14-12) are set from d.
TakenAsScrollY(b, c, d) ==
    /\ c.register_scroll_y = d /\ c.register_scroll_x = b.register_scroll_x
    /\ c.fine_scroll_x = b.fine_scroll_x
    /\ Bits(c.canon_render_address, 5, 9) = d \div 8
    /\ Bits(c.canon_render_address, 12, 14) = d % 8
    /\ Bits(c.canon_render_address, 0, 4) = Bits(b.canon_render_address, 0, 4)
    /\ Bits(c.canon_render_address, 10, 11) = Bits(b.canon_render_address, 10, 11)
    /\ c.current_render_address = b.current_render_address

\* ... as by a write of d to port 6 taken as the high byte: T's bits 13-8
\* are set from d, T's low byte and V are kept.
TakenAsAddressHigh(b, c, d) ==
    /\ Bits(c.canon_render_address, 8, 13) = d % 64
    /\ Bits(c.canon_render_address, 0, 7) = Bits(b.canon_render_address, 0, 7)
    /\ c.current_render_address = b.current_render_address
    /\ c.register_scroll_x = b.register_scroll_x
    /\ c.register_scroll_y = b.register_scroll_y

\* ... taken as the low byte: T's low byte is d, the rest of T is kept and
\* V becomes T.
TakenAsAddressLow(b, c, d) ==
    /\ Bits(c.canon_render_address, 0, 7) = d
    /\ Bits(c.canon_render_address, 8, 15) = Bits(b.canon_render_address, 8, 15)
    /\ c.current_render_address = c.canon_render_address
    /\ c.register_scroll_x = b.register_scroll_x
    /\ c.register_scroll_y = b.register_scroll_y

\* C14: a read of port 2 resets the write toggle, whatever writes to ports
\* 5 and 6 came before it.  The first write to port 5 after the read is
\* taken as the X scroll and a second one as the Y scroll; the first write
\* to port 6 after the read is taken as the high byte and a second one as
\* the low byte.
C14_StatusReadResetsToggle ==
    /\ (Len(ppu_trace) >= 2 /\ ReadOf(Back(1), 2) /\ WriteOf(call, 5)) =>
          Returned /\ TakenAsScrollX(call.ppu, ppu, call.op.data)
    /\ (Len(ppu_trace) >= 3 /\ ReadOf(Back(2), 2) /\ WriteOf(Back(1), 5)
           /\ WriteOf(call, 5)) =>
          Returned /\ TakenAsScrollY(call.ppu, ppu, call.op.data)
    /\ (Len(ppu_trace) >= 2 /\ ReadOf(Back(1), 2) /\ WriteOf(call, 6)) =>
          Returned /\ TakenAsAddressHigh(call.ppu, ppu, call.op.data)
    /\ (Len(ppu_trace) >= 3 /\ ReadOf(Back(2), 2) /\ WriteOf(Back(1), 6)
           /\ WriteOf(call, 6)) =>
          Returned /\ TakenAsAddressLow(call.ppu, ppu, call.op.data)

\* A read of port 2 found the toggle at "second" after three writes to
\* ports 5 and 6, and the two writes to port 5 after it have set X = 0xA2
\* and then Y = 0x7D.
C14_Witness ==
    /\ Len(ppu_trace) = 6 /\ Returned
    /\ \A n \in 3 .. 5 : WriteOf(Back(n), 5) \/ WriteOf(Back(n), 6)
    /\ ReadOf(Back(2), 2) /\ ~Back(2).ppu.cursed_multi_register_flag
    /\ WriteOf(Back(1), 5) /\ Back(1).op.data = \hA2
    /\ WriteOf(call, 5) /\ call.op.data = \h7D
    /\ ppu.register_scroll_x = \hA2 /\ ppu.register_scroll_y = \h7D

\* C15: ports 5 and 6 share one write toggle.  After a read of port 2, a
\* write to port 6 that follows a single write to port 5 is taken as the
\* low byte (and copies T into V), and a write to port 5 that follows a
\* single write to port 6 is taken as the Y scroll.  Every write to port 5
\* or 6 flips the toggle; a write to any other port leaves it as it is.
C15_SharedToggle ==
    /\ (Len(ppu_trace) >= 3 /\ ReadOf(Back(2), 2) /\ WriteOf(Back(1), 5)
           /\ WriteOf(call, 6)) =>
          Returned /\ TakenAsAddressLow(call.ppu, ppu, call.op.data)
    /\ (Len(ppu_trace) >= 3 /\ ReadOf(Back(2), 2) /\ WriteOf(Back(1), 6)
           /\ WriteOf(call, 5)) =>
          Returned /\ TakenAsScrollY(call.ppu, ppu, call.op.data)
    /\ (Called /\ (WriteOf(call, 5) \/ WriteOf(call, 6))) =>
          /\ Returned
          /\ ppu.cursed_multi_register_flag = ~call.ppu.cursed_multi_register_flag
    /\ (Called /\ call.op.kind = "write" /\ Port(call) \notin {5, 6}) =>
          ppu.cursed_multi_register_flag = call.ppu.cursed_multi_register_flag

\* After a read of port 2, one write to port 5 and then a write of 0xE5 to
\* port 6 that has changed V to T, with 0xE5 as the low byte of both.
C15_Witness ==
    /\ Len(ppu_trace) >= 3 /\ Returned
    /\ ReadOf(Back(2), 2) /\ WriteOf(Back(1), 5)
    /\ WriteOf(call, 6) /\ call.op.data = \hE5
    /\ ppu.current_render_address = ppu.canon_render_address
    /\ ppu.current_render_address % 256 = \hE5
    /\ call.ppu.current_render_address # ppu.current_render_address

\* With the toggle at "second", a write to another port has left it there.
C15_WitnessOtherPort ==
    /\ Called /\ Returned
    /\ call.op.kind = "write" /\ Port(call) \in {1, 2, 3, 4, 7}
    /\ ~call.ppu.cursed_multi_register_flag
    /\ ~ppu.cursed_multi_register_flag

\* The last three calls are a read of port 2 and two writes to port 6.
AddressWritten ==
    /\ Len(ppu_trace) >= 3
    /\ ReadOf(Back(2), 2) /\ WriteOf(Back(1), 6) /\ WriteOf(call, 6)

\* C16 as stated: PPUADDR.  After a read of port 2, writing hi and then lo
\* to port 6 leaves T = V = ((hi AND 0x3F) << 8) | lo, bit 14 clear whatever
\* T held before; the first of the two writes does not change V.
C16_AddressWritesAsStated ==
    AddressWritten =>
        /\ Returned
        /\ ppu.canon_render_address
              = (Back(1).op.data % 64) * 256 + call.op.data
        /\ ppu.current_render_address = ppu.canon_render_address
        /\ call.ppu.current_render_address = Back(1).ppu.current_render_address

\* What holds of C16: the two writes leave T = V with bits 13-0 as stated
\* and bits 15 and 14 as T had them before the first write, which does not
\* change V.
C16_AddressWritesKeepBit14 ==
    AddressWritten =>
        /\ Returned
        /\ ppu.canon_render_address
              = Bits(Back(1).ppu.canon_render_address, 14, 15) * 16384
                + (Back(1).op.data % 64) * 256 + call.op.data
        /\ ppu.current_render_address = ppu.canon_render_address
        /\ call.ppu.current_render_address = Back(1).ppu.current_render_address

\* A Y scroll of 0x7D (fine Y = 5) had set bit 14 of T; after the read of
\* port 2, the writes of 0x3F and 0xE5 to port 6 have left T = V = 0x7FE5.
C16_Witness ==
    /\ AddressWritten /\ Returned
    /\ Back(2).ppu.register_scroll_y = \h7D
    /\ Bits(Back(1).ppu.canon_render_address, 14, 14) = 1
    /\ Back(1).op.data = \h3F /\ call.op.data = \hE5
    /\ ppu.canon_render_address = \h7FE5
    /\ ppu.current_render_address = \h7FE5

\* The byte that PPU-bus address t holds, for the PPU fields pp.
BusByte(pp, t) == perform_bus_read([ppu |-> pp, cartridge |-> cartridge], t)

\* Trace entry t is an access to port 7.
DataAccess(t) == ReadOf(t, 7) \/ WriteOf(t, 7)

\* The last call is the n-th access to port 7 since two writes to port 6
\* set the address.
NthDataAccess(n) ==
    /\ Len(ppu_trace) >= n + 2
    /\ \A k \in 0 .. n - 1 : DataAccess(Back(k))
    /\ WriteOf(Back(n), 6) /\ WriteOf(Back(n + 1), 6)
    /\ Back(n + 1).ppu.cursed_multi_register_flag

\* The address those two writes set.
AddressSet(n) == (Back(n + 1).op.data % 64) * 256 + Back(n).op.data

\* The stride that CONTROL bit 2 selects in the PPU fields pp.
Stride(pp) == IF Bit(pp.register_control, 2) = 1 THEN 32 ELSE 1

\* The last call, an access to port 7, has targeted PPU-bus address t: a
\* read has fetched the byte at t into the read buffer, a write has stored
\* its byte at t (or, in the pattern tables, has stored nothing).
Targeted(t) ==
    /\ ReadOf(call, 7) => ppu.ppudata_latch = BusByte(call.ppu, t)
    /\ WriteOf(call, 7) =>
          IF t >= \h2000 THEN BusByte(ppu, t) = call.op.data
          ELSE ppu.nametables = call.ppu.nametables /\ ppu.cram = call.ppu.cram

\* What the code does on an access to port 7.
DataAccessContract ==
    /\ \A n \in 1 .. Len(ppu_trace) :
          NthDataAccess(n) =>
              /\ Returned
              /\ Targeted((AddressSet(n) + (n - 1) * Stride(call.ppu)) % \h4000)
    /\ (Called /\ DataAccess(call)) =>
          /\ ppu.current_render_address
                = (call.ppu.current_render_address + Stride(call.ppu)) % 65536
          /\ ppu.canon_render_address = call.ppu.canon_render_address
          /\ ppu.cursed_multi_register_flag = call.ppu.cursed_multi_register_flag

BusAddress(t) == t.ppu.current_render_address % \h4000

\* C18 as stated: PPUDATA read buffer.  A read of port 7 below 0x3F00
\* returns the read buffer and refills it with the byte at V; a read of
\* port 7 at 0x3F00-0x3FFF returns the addressed palette byte at once.
C18_ReadBufferAsStated ==
    (Called /\ ReadOf(call, 7)) =>
        /\ Returned
        /\ IF BusAddress(call) < \h3F00
           THEN /\ call.result = call.ppu.ppudata_latch
                /\ ppu.ppudata_latch = BusByte(call.ppu, BusAddress(call))
           ELSE call.result = call.ppu.cram[BusAddress(call) % 32]

\* What holds of C18: every read of port 7, at a palette address too,
\* returns the read buffer and refills it with the byte at V.
C18_EveryReadBuffered ==
    (Called /\ ReadOf(call, 7)) =>
        /\ Returned
        /\ call.result = call.ppu.ppudata_latch
        /\ ppu.ppudata_latch = BusByte(call.ppu, BusAddress(call))

\* With 0xAB in palette entry 1, a read of port 7 at 0x3F01 has returned 0
\* and the read after it 0xAB.
C18_Witness ==
    /\ Len(ppu_trace) >= 2 /\ Returned
    /\ ReadOf(Back(1), 7) /\ BusAddress(Back(1)) = \h3F01
    /\ Back(1).ppu.cram[1] = \hAB /\ Back(1).result = 0
    /\ ReadOf(call, 7) /\ call.result = \hAB

\* The access of trace entry t is made at a PPU-bus address in lo .. hi.
AccessWithin(t, lo, hi) ==
    DataAccess(t) /\ BusAddress(t) >= lo /\ BusAddress(t) <= hi

\* The last call, an access to port 7, was routed to palette RAM: a write
\* has changed the entry (address AND 0x1F) of CRAM and nothing else, a read
\* has fetched that entry.
RoutedToPalette ==
    /\ Returned
    /\ WriteOf(call, 7) =>
          /\ ppu.cram = [call.ppu.cram EXCEPT ![BusAddress(call) % 32] = call.op.data]
          /\ ppu.nametables = call.ppu.nametables
    /\ ReadOf(call, 7) =>
          ppu.ppudata_latch = call.ppu.cram[BusAddress(call) % 32]

\* C19 as stated: palette routing.  Every access at a PPU-bus address in
\* 0x3F00-0x3FFF, 0x3F00 included, goes to palette RAM at index (address
\* AND 0x1F) and touches no nametable byte.
C19_PaletteRoutingAsStated ==
    (Called /\ AccessWithin(call, \h3F00, \h3FFF)) => RoutedToPalette

\* What holds of C19: the accesses at 0x3F01-0x3FFF go to palette RAM as
\* stated; an access at 0x3F00 goes to the nametable byte 0xF00 and leaves
\* palette RAM alone.
C19_PaletteRoutingAbove3F00 ==
    /\ (Called /\ AccessWithin(call, \h3F01, \h3FFF)) => RoutedToPalette
    /\ (Called /\ AccessWithin(call, \h3F00, \h3F00)) =>
          /\ Returned
          /\ ppu.cram = call.ppu.cram
          /\ WriteOf(call, 7) => read_byte(ppu.nametables, \hF00) = call.op.data
          /\ ReadOf(call, 7) =>
                ppu.ppudata_latch = read_byte(call.ppu.nametables, \hF00)

\* A write of 0xAB at 0x3F00 has left CRAM[0] at 0 and the nametable byte
\* 0xF00 at 0xAB.
C19_Witness ==
    /\ Called /\ Returned /\ WriteOf(call, 7) /\ BusAddress(call) = \h3F00
    /\ call.op.data = \hAB
    /\ ppu.cram[0] = 0 /\ read_byte(ppu.nametables, \hF00) = \hAB

\* v with its bit of weight w inverted.
Inverted(v, w) == IF (v \div w) % 2 = 1 THEN v - w ELSE v + w

\* The nametable bytes (as offsets into the 4 KiB that 0x2000-0x2FFF and
\* its mirror 0x3000-0x3EFF address) that are one byte with the one at
\* PPU-bus address t: the byte itself and, unless the cartridge is
\* four-screen, the one whose bit 10 (horizontal) or bit 11 (vertical)
\* differs.
SameByte(t) ==
    {t % \h1000}
    \cup (IF cartridge.mirroring_type = "Horizontal"
          THEN {Inverted(t % \h1000, \h400)} ELSE {})
    \cup (IF cartridge.mirroring_type = "Vertical"
          THEN {Inverted(t % \h1000, \h800)} ELSE {})

\* The calls so far that wrote PPU-bus address t or its alias through
\* port 7, and the byte that the last of them wrote (0 if there is none).
WritesAt(t) ==
    {j \in 1 .. Len(ppu_trace) :
        /\ WriteOf(ppu_trace[j], 7)
        /\ BusAddress(ppu_trace[j]) % \h1000 \in SameByte(t)}
LastWrittenAt(t) ==
    IF WritesAt(t) = {} THEN 0
    ELSE ppu_trace[CHOOSE j \in WritesAt(t) : \A k \in WritesAt(t) : k <= j].op.data

\* Every write through port 7 so far was at a nametable address.
OnlyNametableWrites ==
    \A j \in 1 .. Len(ppu_trace) :
        WriteOf(ppu_trace[j], 7) => AccessWithin(ppu_trace[j], \h2000, \h3EFF)

\* C20: nametable mirroring.  When all PPU-bus writes so far were at
\* 0x2000-0x3EFF, a read at a nametable address fetches the byte most
\* recently written at that address or at its alias -- the address with
\* bit 10 inverted under horizontal mirroring, with bit 11 inverted under
\* vertical mirroring, where that is a nametable address as well -- and
\* under four-screen the byte most recently written at that address alone.
C20_Mirroring ==
    (Called /\ OnlyNametableWrites /\ ReadOf(call, 7)
       /\ AccessWithin(call, \h2000, \h3EFF)) =>
        /\ Returned
        /\ ppu.ppudata_latch = LastWrittenAt(BusAddress(call))

\* Under vertical mirroring 0xAB was written at 0x2000 and then 0xCD at
\* 0x2800; the read at 0x2000 has fetched 0xCD and the read after it has
\* returned it.
C20_Witness ==
    /\ Len(ppu_trace) >= 2 /\ Returned /\ OnlyNametableWrites
    /\ cartridge.mirroring_type = "Vertical"
    /\ \E j \in 1 .. Len(ppu_trace) :
          /\ WriteOf(ppu_trace[j], 7) /\ BusAddress(ppu_trace[j]) = \h2000
          /\ ppu_trace[j].op.data = \hAB
    /\ \E j \in 1 .. Len(ppu_trace) :
          /\ WriteOf(ppu_trace[j], 7) /\ BusAddress(ppu_trace[j]) = \h2800
          /\ ppu_trace[j].op.data = \hCD
    /\ ReadOf(Back(1), 7) /\ BusAddress(Back(1)) = \h2000
    /\ ReadOf(call, 7) /\ call.result = \hCD

\* Under four-screen 0xAB was written at 0x2000 and the read at 0x2800 has
\* fetched 0.
C20_WitnessFourScreen ==
    /\ Called /\ Returned /\ OnlyNametableWrites
    /\ cartridge.mirroring_type = "FourScreen"
    /\ WritesAt(\h2000) # {} /\ LastWrittenAt(\h2000) = \hAB
    /\ ReadOf(call, 7) /\ BusAddress(call) = \h2800
    /\ ppu.ppudata_latch = 0

-----------------------------------------------------------------------------
(* Properties of the devices on the CPU bus. *)

\* The call of trace entry t is a CPU write of this address.
CpuWrite(t, address) == t.op.kind = "write" /\ t.op.address = address
CpuRead(t, address) == t.op.kind = "read" /\ t.op.address = address

\* The byte that the work RAM or the PRG ROM held at a CPU address when
\* the call of trace entry t was made.
Mem(t, address) ==
    IF address < \h2000
    THEN read_byte(t.ram, address % \h800)
    ELSE read_byte(t.cartridge.prg_data, address % t.cartridge.prg_size)

\* Pages that lie in the work RAM (and its mirrors) or in the PRG ROM.
MemoryPages == (\h00 .. \h1F) \cup (\h41 .. \hFF)

\* C21: a write of P to 0x4014 while the OAM address is r, with page P in
\* the work RAM or in the PRG ROM, returns, leaves OAM[(r + i) mod 256] =
\* mem[0xPP00 + i] for every i in 0..255, and leaves the OAM address at r
\* again; this includes P = 0xFF, whose last source address is 0xFFFF.
C21_OamDma ==
    (Called /\ CpuWrite(call, \h4014) /\ call.op.data \in MemoryPages) =>
        /\ Returned
        /\ \A i \in 0 .. 255 :
              read_byte(ppu.oam, (call.ppu.register_oam_address + i) % 256)
                 = Mem(call, call.op.data * 256 + i)
        /\ ppu.register_oam_address = call.ppu.register_oam_address

\* Page 0xFF has gone through the DMA from OAM address 0xFF on: the bytes
\* of 0xFF00, 0xFF01 and 0xFFFF are in OAM[0xFF], OAM[0] and OAM[0xFE].
C21_Witness ==
    /\ Returned /\ CpuWrite(call, \h4014) /\ call.op.data = \hFF
    /\ call.ppu.register_oam_address = \hFF
    /\ read_byte(call.ppu.oam, \h00) = 0
    /\ read_byte(ppu.oam, \hFF) = \hE1
    /\ read_byte(ppu.oam, \h00) = \hE2
    /\ read_byte(ppu.oam, \hFE) = \hEF
    /\ ppu.register_oam_address = \hFF

\* A page of a mirror of the work RAM has gone through the DMA from OAM
\* address 5 on, over a byte that OAM held.
C21_WitnessWorkRam ==
    /\ Returned /\ CpuWrite(call, \h4014) /\ call.op.data = \h0A
    /\ call.ppu.register_oam_address = 5
    /\ read_byte(call.ppu.oam, \h00) = \h66
    /\ read_byte(ppu.oam, \h05) = \h11
    /\ read_byte(ppu.oam, \h04) = \h22
    /\ read_byte(ppu.oam, \h00) = 0

\* C22: a CPU read of PPU port 4, at 0x2004 or any mirror, returns and
\* yields the OAM byte at the OAM address; the OAM address and the OAM stay
\* as they were.
C22_OamDataReadAsStated ==
    (Called /\ ReadOf(call, 4)) =>
        /\ Returned
        /\ call.result = read_byte(call.ppu.oam, call.ppu.register_oam_address)
        /\ ppu.register_oam_address = call.ppu.register_oam_address
        /\ ppu.oam = call.ppu.oam

\* C22, what holds: a CPU read of PPU port 4 panics ("read OAMDATA" is not
\* implemented); the PPU is left as it was.
C22_OamDataReadPanics ==
    (Called /\ ReadOf(call, 4)) => (panicked = "todo" /\ ppu = call.ppu)

\* Port 4 has been read at a mirror while OAM held 0x77 at the OAM address.
C22_Witness ==
    /\ Called /\ ReadOf(call, 4) /\ call.op.address = \h3FFC
    /\ call.ppu.register_oam_address = \h10
    /\ read_byte(call.ppu.oam, \h10) = \h77
    /\ panicked = "todo"

\* The calls that wrote 0x4016, the last of them and the one before it.
PadWrites == {i \in 1 .. Len(ppu_trace) : CpuWrite(ppu_trace[i], \h4016)}
StrobeFall == CHOOSE i \in PadWrites : \A k \in PadWrites : k <= i
StrobeRise ==
    CHOOSE i \in PadWrites \ {StrobeFall} :
        \A k \in PadWrites \ {StrobeFall} : k <= i

\* 0x4016 has been written with bit 0 = 1 and then with bit 0 = 0, and not
\* since.
Strobed ==
    /\ Cardinality(PadWrites) >= 2
    /\ ppu_trace[StrobeRise].op.data % 2 = 1
    /\ ppu_trace[StrobeFall].op.data % 2 = 0

\* The buttons in the order in which a controller reports them.
ButtonOrder ==
    <<"button_a", "button_b", "button_select", "button_start",
      "button_up", "button_down", "button_left", "button_right">>

\* The call at which controller j latched its buttons: the write that
\* raised the strobe, or the last read of the controller while the strobe
\* was high.
LatchedAt(j) ==
    CHOOSE i \in StrobeRise .. StrobeFall :
        /\ i = StrobeRise \/ CpuRead(ppu_trace[i], \h4016 + j)
        /\ \A k \in i + 1 .. StrobeFall : ~CpuRead(ppu_trace[k], \h4016 + j)

\* The reads of controller j that were made after the strobe fell and
\* before the last call.
ReadsSince(j) ==
    Cardinality({i \in StrobeFall + 1 .. Len(ppu_trace) - 1 :
                    CpuRead(ppu_trace[i], \h4016 + j)})

\* C23: after 0x4016 is written with bit 0 = 1 and then with bit 0 = 0, the
\* first eight reads of 0x4016 (of 0x4017) return the latched A, B, Select,
\* Start, Up, Down, Left, Right of controller 0 (of controller 1), in this
\* order, and every later read returns 1; the reads of the other controller
\* do not count.
C23_ControllerStrobe ==
    \A j \in 0 .. 1 :
        (Called /\ Strobed /\ CpuRead(call, \h4016 + j)
                /\ Len(ppu_trace) > StrobeFall) =>
            /\ Returned
            /\ call.result =
                  IF ReadsSince(j) >= 8 THEN 1
                  ELSE IF ppu_trace[LatchedAt(j)].controllers[j]
                              [ButtonOrder[ReadsSince(j) + 1]]
                       THEN 1 ELSE 0

\* With A, Select, Up and Left held at the strobe, eight reads of 0x4016
\* have returned 1, 0, 1, 0, 1, 0, 1, 0 and the ninth has returned 1.
C23_Witness ==
    /\ Returned /\ Strobed /\ CpuRead(call, \h4016)
    /\ Len(ppu_trace) > StrobeFall /\ ReadsSince(0) = 8
    /\ call.result = 1
    /\ \A k \in 1 .. 8 : Back(k).result = (k + 1) % 2
    /\ \A k \in 1 .. 8 : CpuRead(Back(k), \h4016)

\* With B and Start held, the fourth read of 0x4016 has returned Start
\* although reads of 0x4017, which returned 0, lie between the reads
\* of 0x4016.
C23_WitnessInterleaved ==
    /\ Returned /\ Strobed /\ CpuRead(call, \h4016)
    /\ Len(ppu_trace) > StrobeFall /\ ReadsSince(0) = 3 /\ ReadsSince(1) = 4
    /\ call.result = 1
    /\ CpuRead(Back(1), \h4017) /\ Back(1).result = 0
    /\ CpuRead(Back(2), \h4016) /\ Back(2).result = 0
    /\ controllers[0].button_start /\ ~controllers[0].button_select

\* C24: a CPU write to 0x4018-0xFFFF returns and leaves the work RAM, the
\* PPU with its OAM, the controllers, 0x4000-0x4017 and the cartridge as
\* they were; a read of the address that follows returns the byte that a
\* read returned before the write.
C24_CartridgeWriteAbsorbed ==
    /\ (Called /\ call.op.kind = "write"
               /\ call.op.address \in \h4018 .. \hFFFF) =>
            /\ Returned
            /\ ram = call.ram /\ ppu = call.ppu /\ apu = call.apu
            /\ controllers = call.controllers
            /\ cartridge = call.cartridge
    /\ (/\ Len(ppu_trace) >= 3
        /\ call.op.address \in \h4018 .. \hFFFF
        /\ CpuWrite(Back(1), call.op.address)
        /\ CpuRead(call, call.op.address)
        /\ CpuRead(Back(2), call.op.address)) =>
            call.result = Back(2).result

\* 0x5A has been written to 0xFFFF, where the PRG ROM holds 0xEF, while the
\* work RAM, OAM and a controller held something; the reads before and
\* after it have returned 0xEF.
C24_Witness ==
    /\ Returned /\ Len(ppu_trace) >= 3
    /\ CpuRead(call, \hFFFF) /\ call.result = \hEF
    /\ CpuWrite(Back(1), \hFFFF) /\ Back(1).op.data = \h5A
    /\ CpuRead(Back(2), \hFFFF) /\ Back(2).result = \hEF
    /\ read_byte(ram, \h0005) = \h77
    /\ read_byte(ppu.oam, \h00) = \h66
    /\ controllers[0].captured_byte = \h01

\* C25: a CPU read of PPU port 0, 1, 3, 5 or 6, at 0x2000-0x3FFF, returns
\* 0 and leaves every PPU field as it was: the write toggle, the read
\* buffer, V, T, fine X, the OAM address, the vblank flag and the
\* sprite-0-hit flag among them.
C25_WriteOnlyPortRead ==
    (Called /\ \E n \in {0, 1, 3, 5, 6} : ReadOf(call, n)) =>
        /\ Returned
        /\ call.result = 0
        /\ ppu = call.ppu

\* Port 5 has been read at the mirror 0x2ABD while the read buffer held
\* 0x11 and V was 1.
C25_Witness ==
    /\ Returned /\ ReadOf(call, 5) /\ call.op.address = \h2ABD
    /\ call.result = 0
    /\ ppu.ppudata_latch = \h11
    /\ ppu.current_render_address = 1

\* Port 6 has been read at the mirror 0x3FFE between the two writes of an
\* address (the toggle is at the second write).
C25_WitnessToggle ==
    /\ Returned /\ ReadOf(call, 6) /\ call.op.address = \h3FFE
    /\ ~ppu.cursed_multi_register_flag
    /\ ppu.canon_render_address = \h2100

\* Port 3 has been read at the mirror 0x3FFB with the sprite-0-hit flag
\* set, the OAM address at 5 and fine X at 5.
C25_WitnessFlags ==
    /\ Returned /\ ReadOf(call, 3) /\ call.op.address = \h3FFB
    /\ ppu.sprite_0_hit_flag /\ ppu.register_oam_address = 5
    /\ ppu.fine_scroll_x = 5

-----------------------------------------------------------------------------
(* Properties of the frame: vblank, the sprite-0 hit, the scanlines. *)

\* C28: the sprite-0-hit flag is cleared at vblank start.  The vblank start
\* returns with the flag clear, also when the flag was set before it, and a
\* read of port 2 made while the vblank is in progress returns bit 6 = 0.
C28_Sprite0HitClearedAsStated ==
    /\ (Called /\ call.op.kind = "vblank_start") =>
            Returned /\ ~ppu.sprite_0_hit_flag
    /\ (Called /\ ReadOf(call, 2) /\ call.ppu.vblank_in_progress) =>
            Returned /\ Bit(call.result, 6) = 0

\* C28, what holds: a vblank start panics in Cpu::set_nmi_signal, before
\* the line that assigns the sprite-0-hit flag; the flag is as it was, and
\* no read of port 2 is made while a vblank is in progress.
C28_VblankStartKeepsSprite0Hit ==
    /\ (Called /\ call.op.kind = "vblank_start") =>
            /\ panicked = "todo"
            /\ ppu.vblank_in_progress
            /\ ppu.sprite_0_hit_flag = call.ppu.sprite_0_hit_flag
    /\ (Called /\ ReadOf(call, 2)) => ~call.ppu.vblank_in_progress

\* A vblank start has been called with the sprite-0-hit flag set: the flag
\* is still set.
C28_Witness ==
    /\ Called /\ call.op.kind = "vblank_start"
    /\ call.ppu.sprite_0_hit_flag
    /\ ppu.sprite_0_hit_flag
    /\ panicked = "todo"

\* The colour of pixel (x_in, y_in) of the tile at tile_address in the CHR
\* ROM that trace entry t had.
TilePixel(t, tile_address, x_in, y_in) ==
    Bit(read_byte(t.cartridge.chr_data,
                  (tile_address + y_in) % t.cartridge.chr_size), x_in)
    + 2 * Bit(read_byte(t.cartridge.chr_data,
                        (tile_address + y_in + 8) % t.cartridge.chr_size),
              x_in)

\* Trace entry t rasterizes a scanline (with sprites of 8 lines).
Rasterizes(t) ==
    t.op.kind = "rasterize" /\ BitAnd(t.ppu.register_control, \h20) = 0

\* The colour that the sprite of an OAM index has at a column of the
\* scanline that trace entry t rasterizes; 0 where it has no pixel.
SpriteColourAt(t, index, column) ==
    With([k \in 0 .. 3 |-> read_byte(t.ppu.oam, 4 * index + k)],
         LAMBDA o :
            IF /\ t.op.address \in o[0] + 1 .. o[0] + 8
               /\ column \in o[3] .. o[3] + 7
            THEN TilePixel(t,
                    (IF Bit(t.ppu.register_control, 3) = 1 THEN \h1000 ELSE 0)
                    + 16 * o[1],
                    IF Bit(o[2], 6) = 1 THEN 7 - (column - o[3])
                    ELSE column - o[3],
                    IF Bit(o[2], 7) = 1 THEN 7 - (t.op.address - (o[0] + 1))
                    ELSE t.op.address - (o[0] + 1))
            ELSE 0)

\* The nametable address of the background tile under a column of the
\* scanline that trace entry t rasterizes: the column and the fine X scroll
\* are added to V's coarse X, whose carry inverts V's bit 10.
BackgroundTileAt(t, column) ==
    With(t.ppu.current_render_address, LAMBDA v :
    With(Bits(v, 0, 4) + ((t.ppu.fine_scroll_x + column) \div 8),
         LAMBDA coarse :
            \h2000 + \h800 * Bit(v, 11)
            + \h400 * ((Bit(v, 10) + (coarse \div 32)) % 2)
            + 32 * Bits(v, 5, 9) + (coarse % 32)))

\* The colour of the background at that column.
BackgroundColourAt(t, column) ==
    TilePixel(t,
        (IF Bit(t.ppu.register_control, 4) = 1 THEN \h1000 ELSE 0)
        + 16 * perform_bus_read([ppu |-> t.ppu, cartridge |-> t.cartridge],
                                BackgroundTileAt(t, column)),
        (t.ppu.fine_scroll_x + column) % 8,
        t.ppu.current_render_address \div 4096)

\* On the scanline that trace entry t rasterizes, the sprite of an OAM
\* index has a pixel where the background has one.
Over(t, index) ==
    \E column \in 0 .. 255 :
        /\ SpriteColourAt(t, index, column) # 0
        /\ BackgroundColourAt(t, column) # 0

\* C29: when sprite 0 has a non-transparent pixel where the background has
\* one on a scanline, the rasterization of the scanline sets the sprite-0-hit
\* flag, and a read of STATUS after the scanline has bit 6 set; the
\* rasterization of a scanline where sprite 0 has no such pixel leaves the
\* flag as it was, whatever the other sprites have.
C29_Sprite0Hit ==
    /\ (Called /\ Rasterizes(call)) =>
            /\ Returned
            /\ ppu.sprite_0_hit_flag
                    <=> (call.ppu.sprite_0_hit_flag \/ Over(call, 0))
    /\ (Called /\ ReadOf(call, 2)) =>
            \A j \in 1 .. Len(ppu_trace) - 1 :
                (Rasterizes(ppu_trace[j]) /\ Over(ppu_trace[j], 0)) =>
                    Returned /\ Bit(call.result, 6) = 1

\* OAM[0] is {Y=100, tile=1, attr=0, X=50}, tile 1 has a pixel at (0,0),
\* the background has one at pixel (50,101); scanline 101 was rasterized
\* with the flag clear, and the read of STATUS that follows has bit 6 set.
C29_Witness ==
    /\ Len(ppu_trace) >= 2 /\ ReadOf(call, 2) /\ Returned
    /\ With(ppu_trace[Len(ppu_trace) - 1], LAMBDA t :
          /\ Rasterizes(t) /\ t.op.address = 101
          /\ [k \in 0 .. 3 |-> read_byte(t.ppu.oam, k)]
                = [k \in 0 .. 3 |-> <<100, 1, 0, 50>>[k + 1]]
          /\ TilePixel(t, 16, 0, 0) # 0
          /\ SpriteColourAt(t, 0, 50) # 0
          /\ BackgroundColourAt(t, 50) # 0
          /\ ~t.ppu.sprite_0_hit_flag)
    /\ Bit(call.result, 6) = 1

\* Sprite 1 has a pixel over a background pixel on the scanline rasterized,
\* sprite 0 has none: the flag is still clear.
C29_WitnessOtherSprite ==
    /\ Called /\ Rasterizes(call) /\ Returned
    /\ Over(call, 1) /\ ~Over(call, 0)
    /\ ~ppu.sprite_0_hit_flag

\* Sprite 0 and the background both have pixels on the scanline rasterized,
\* but nowhere at the same column: the flag is still clear.
C29_WitnessApart ==
    /\ Called /\ Rasterizes(call) /\ Returned
    /\ \E column \in 0 .. 255 : SpriteColourAt(call, 0, column) # 0
    /\ \E column \in 0 .. 255 : BackgroundColourAt(call, column) # 0
    /\ ~Over(call, 0)
    /\ ~ppu.sprite_0_hit_flag

\* The horizontal bits of a render address: the coarse X and bit 10.
Horizontal(v) == BitAnd(v, \h041F)

\* The index of the last rasterization before trace entry i, 0 if none.
RasterizedBefore(i) ==
    IF \E j \in 1 .. i - 1 : ppu_trace[j].op.kind = "rasterize"
    THEN CHOOSE j \in 1 .. i - 1 :
            /\ ppu_trace[j].op.kind = "rasterize"
            /\ \A k \in j + 1 .. i - 1 : ppu_trace[k].op.kind # "rasterize"
    ELSE 0

\* The last call rasterizes the scanline after the one that the trace
\* entry found by RasterizedBefore rasterized.
NextScanline ==
    /\ Called /\ call.op.kind = "rasterize"
    /\ RasterizedBefore(Len(ppu_trace)) # 0

\* C30: within a scanline the rasterization comes first, then the advance
\* of V and the reload of its horizontal bits from T, then the CPU steps of
\* the scanline.  The scanline is ended directly after its rasterization,
\* and the next scanline is rasterized from a V whose horizontal bits are
\* those that T had before the CPU steps.
C30_OrderAsStated ==
    NextScanline =>
        With(RasterizedBefore(Len(ppu_trace)), LAMBDA j :
            /\ ppu_trace[j + 1].op.kind = "end_of_scanline"
            /\ Horizontal(call.ppu.current_render_address)
                    = Horizontal(ppu_trace[j + 1].ppu.canon_render_address))

\* C30, what holds: the CPU steps of a scanline come between its
\* rasterization and its end.  The scanline is ended directly before the
\* next one is rasterized, what lies between a rasterization and that end
\* are accesses of the CPU, and the next scanline is rasterized from a V
\* whose horizontal bits are those that T has after the CPU steps.
C30_CpuStepsBeforeReload ==
    /\ NextScanline =>
            With(RasterizedBefore(Len(ppu_trace)), LAMBDA j :
                /\ ppu_trace[Len(ppu_trace) - 1].op.kind = "end_of_scanline"
                /\ ppu_trace[Len(ppu_trace) - 1].op.address + 1
                        = call.op.address
                /\ \A k \in j + 1 .. Len(ppu_trace) - 2 :
                        ppu_trace[k].op.kind \in {"read", "write"}
                /\ Horizontal(call.ppu.current_render_address)
                        = Horizontal(call.ppu.canon_render_address))
    /\ (Called /\ call.op.kind = "end_of_scanline") =>
            /\ Returned
            /\ ppu.canon_render_address = call.ppu.canon_render_address
            /\ Horizontal(ppu.current_render_address)
                    = Horizontal(call.ppu.canon_render_address)

\* Scanline 1 is about to be rasterized; during the CPU steps of scanline 0
\* a write to port 5 has changed T's coarse X, and V has the new one.
C30_Witness ==
    /\ NextScanline /\ call.op.address = 1
    /\ With(RasterizedBefore(Len(ppu_trace)), LAMBDA j :
          /\ ppu_trace[j].op.address = 0
          /\ WriteOf(ppu_trace[j + 1], 5)
          /\ Horizontal(ppu_trace[j + 1].ppu.canon_render_address)
                # Horizontal(call.ppu.canon_render_address))
    /\ Horizontal(call.ppu.current_render_address)
            = Horizontal(call.ppu.canon_render_address)

\* The OAM indices of the sprites whose band of scanlines, from OAM_Y + 1
\* on and 8 or 16 high, contains the scanline that trace entry t rasterizes.
InBand(t) ==
    {i \in 0 .. 63 :
        t.op.address - (read_byte(t.ppu.oam, 4 * i) + 1)
            \in 0 .. (IF Bit(t.ppu.register_control, 5) = 1 THEN 15 ELSE 7)}

\* The palette RAM entry of the background at a column of the scanline that
\* trace entry t rasterizes: the attribute byte of the tile's 32x32 area
\* holds the palette of each of its 16x16 quarters in two bits.
BackgroundEntryAt(t, column) ==
    With(BackgroundTileAt(t, column) - \h2000, LAMBDA n :
    With(perform_bus_read([ppu |-> t.ppu, cartridge |-> t.cartridge],
            \h23C0 + \h400 * Bits(n, 10, 11) + 8 * Bits(n, 7, 9)
            + Bits(n, 2, 4)),
         LAMBDA attribute_byte :
            IF BackgroundColourAt(t, column) = 0
            THEN t.ppu.cram[0]
            ELSE t.ppu.cram[
                    4 * Bits(attribute_byte,
                             2 * (Bit(n, 1) + 2 * Bit(n, 6)),
                             2 * (Bit(n, 1) + 2 * Bit(n, 6)) + 1)
                    + BackgroundColourAt(t, column)]))

C31_WitnessEighth ==
    /\ Called /\ Rasterizes(call) /\ Returned
    /\ 3 \notin InBand(call) /\ (0 .. 8) \ {3} \subseteq InBand(call)
    /\ SpriteColourAt(call, 8, 100) = 1
    /\ call.pixels[101] = call.ppu.cram[17]
    /\ call.ppu.cram[17] # BackgroundEntryAt(call, 100)

\* The sprites of the scanline that trace entry t rasterizes: those of
\* its band that have fewer than 8 sprites of the band below them.
Listed(t) ==
    {i \in InBand(t) : Cardinality({k \in InBand(t) : k < i}) < 8}

\* Those of the sprites listed that have a pixel at a column.
CandidatesOf(t, listed, column) ==
    {i \in listed : SpriteColourAt(t, i, column) # 0}

\* The sprites of the scanline that have a pixel at a column.
Candidates(t, column) == CandidatesOf(t, Listed(t), column)

\* The lowest of a non-empty set of OAM indices.
Lowest(S) == CHOOSE i \in S : \A k \in S : i <= k

\* The sprite with an OAM index is behind the background.
BehindBackground(t, index) == Bit(read_byte(t.ppu.oam, 4 * index + 2), 5) = 1

\* The palette RAM entry of a colour of the sprite with an OAM index.
SpriteEntry(t, index, colour) ==
    t.ppu.cram[4 * (4 + (read_byte(t.ppu.oam, 4 * index + 2) % 4)) + colour]

\* Of the sprites with a pixel at a column, the candidate is shown: there
\* is one, and not both a background pixel there and the candidate behind
\* the background.
SpriteShown(t, candidates, column) ==
    /\ candidates # {}
    /\ ~(/\ BackgroundColourAt(t, column) # 0
          /\ BehindBackground(t, Lowest(candidates)))

\* C32: at each pixel the sprite candidate is the first listed sprite with
\* a pixel there; the pixel made is the palette RAM entry of the candidate's
\* colour in its palette when there is a candidate and not both a
\* background pixel and the candidate behind the background, else that of
\* the background's colour in its palette; a colour 0 gives entry 0 whatever
\* the palette.
C32_PixelComposition ==
    (Called /\ Rasterizes(call)) =>
        /\ Returned
        /\ Len(call.pixels) = 256
        /\ With(Listed(call), LAMBDA listed :
             \A column \in 0 .. 255 :
                With(CandidatesOf(call, listed, column), LAMBDA candidates :
                  /\ call.pixels[column + 1]
                        = IF SpriteShown(call, candidates, column)
                          THEN SpriteEntry(call, Lowest(candidates),
                                  SpriteColourAt(call, Lowest(candidates),
                                                 column))
                          ELSE BackgroundEntryAt(call, column)
                  /\ (~SpriteShown(call, candidates, column)
                        /\ BackgroundColourAt(call, column) = 0)
                        => call.pixels[column + 1] = call.ppu.cram[0]))

\* The palette RAM entries differ from each other, and on the scanline
\* rasterized: at column 52 sprite 0, behind the background, and sprite 1,
\* in front of it, both have a pixel over a background pixel, and the
\* background's entry is shown; at column 58 only sprite 1 has one, and its
\* entry is shown; at column 55 sprite 0 has one over no background pixel,
\* and its entry is shown; at column 62 there is no pixel at all in an area
\* of palette 1, and entry 0 is shown.
C32_Witness ==
    /\ Called /\ Rasterizes(call) /\ Returned
    /\ \A i, k \in 0 .. 31 : i # k => call.ppu.cram[i] # call.ppu.cram[k]
    /\ Candidates(call, 52) = {0, 1}
    /\ BehindBackground(call, 0) /\ ~BehindBackground(call, 1)
    /\ BackgroundColourAt(call, 52) # 0
    /\ call.pixels[53] = call.ppu.cram[4 + BackgroundColourAt(call, 52)]
    /\ Candidates(call, 58) = {1}
    /\ call.pixels[59] = call.ppu.cram[24 + SpriteColourAt(call, 1, 58)]
    /\ Candidates(call, 55) = {0, 1}
    /\ BackgroundColourAt(call, 55) = 0
    /\ call.pixels[56] = call.ppu.cram[20 + SpriteColourAt(call, 0, 55)]
    /\ Candidates(call, 62) = {}
    /\ BackgroundColourAt(call, 62) = 0
    /\ call.pixels[63] = call.ppu.cram[0]
    /\ call.ppu.cram[0] # call.ppu.cram[4]

\* Sprite 0 has no pixel at column 50 and sprite 1 has one: sprite 1 is
\* the candidate and, in front of no background pixel, is shown.
C32_WitnessSecond ==
    /\ Called /\ Rasterizes(call) /\ Returned
    /\ {0, 1} \subseteq Listed(call)
    /\ 50 \in read_byte(call.ppu.oam, 3) .. read_byte(call.ppu.oam, 3) + 7
    /\ Candidates(call, 50) = {1}
    /\ BackgroundColourAt(call, 50) = 0
    /\ call.ppu.cram[17] # call.ppu.cram[0]
    /\ call.pixels[51] = call.ppu.cram[17]

\* The last call is the end of a scanline that found the given fine Y in
\* V, and it returned.
EndedFrom(fine) ==
    /\ Called /\ call.op.kind = "end_of_scanline" /\ Returned
    /\ Bits(call.ppu.current_render_address, 12, 14) \in fine

\* What the end of a scanline does to V's vertical bits where the claim and
\* the code agree: a fine Y below 7 goes up by one, coarse Y and bit 11
\* stay; from 7 it goes to 0 and a coarse Y of 29 goes to 0 with bit 11
\* inverted, one of 0 to 28 or 30 goes up by one with bit 11 kept.
EndOfScanlineBelow31(b, c) ==
    /\ Bits(b, 12, 14) < 7 =>
            /\ Bits(c, 12, 14) = Bits(b, 12, 14) + 1
            /\ Bits(c, 5, 9) = Bits(b, 5, 9)
            /\ Bit(c, 11) = Bit(b, 11)
    /\ (Bits(b, 12, 14) = 7 /\ Bits(b, 5, 9) = 29) =>
            /\ Bits(c, 12, 14) = 0
            /\ Bits(c, 5, 9) = 0
            /\ Bit(c, 11) = 1 - Bit(b, 11)
    /\ (Bits(b, 12, 14) = 7 /\ Bits(b, 5, 9) \notin {29, 31}) =>
            /\ Bits(c, 12, 14) = 0
            /\ Bits(c, 5, 9) = Bits(b, 5, 9) + 1
            /\ Bit(c, 11) = Bit(b, 11)

\* C33: at the end of a scanline a fine Y below 7 goes up by one and
\* nothing else of V's vertical bits changes; a fine Y of 7 goes to 0 and the
\* coarse Y advances: from 29 to 0 with bit 11 inverted, from any other
\* value, 30 and 31 too, by one modulo 32 with bit 11 kept.
C33_EndOfScanlineAsStated ==
    EndedFrom(0 .. 7) =>
        /\ EndOfScanlineBelow31(call.ppu.current_render_address,
                                ppu.current_render_address)
        /\ (/\ Bits(call.ppu.current_render_address, 12, 14) = 7
            /\ Bits(call.ppu.current_render_address, 5, 9) = 31) =>
                /\ Bits(ppu.current_render_address, 12, 14) = 0
                /\ Bits(ppu.current_render_address, 5, 9) = 0
                /\ Bit(ppu.current_render_address, 11)
                        = Bit(call.ppu.current_render_address, 11)

\* C33, what holds: as stated for a coarse Y other than 31.  From a fine Y
\* of 7 and a coarse Y of 31 the coarse Y goes to 0 and its carry is added
\* to the bits above it: bit 11 is inverted when bit 10 was set, and the
\* fine Y is 1, not 0, when bit 11 was set too.
C33_CoarseY31Carries ==
    EndedFrom(0 .. 7) =>
        /\ EndOfScanlineBelow31(call.ppu.current_render_address,
                                ppu.current_render_address)
        /\ (/\ Bits(call.ppu.current_render_address, 12, 14) = 7
            /\ Bits(call.ppu.current_render_address, 5, 9) = 31) =>
                /\ Bits(ppu.current_render_address, 5, 9) = 0
                /\ Bits(ppu.current_render_address, 11, 14)
                        = (Bits(call.ppu.current_render_address, 10, 11) + 1)
                            \div 2

\* A scanline has ended from a fine Y of 7 and a coarse Y of 31 with bit 10
\* set and bit 11 clear: bit 11 is set now.
C33_Witness ==
    /\ EndedFrom({7})
    /\ Bits(call.ppu.current_render_address, 5, 9) = 31
    /\ Bits(call.ppu.current_render_address, 10, 11) = 1
    /\ Bits(ppu.current_render_address, 5, 9) = 0
    /\ Bit(ppu.current_render_address, 11) = 1

\* A scanline has ended from a fine Y of 7 and a coarse Y of 29: the coarse
\* Y is 0 and bit 11 is inverted.
C33_Witness29 ==
    /\ EndedFrom({7})
    /\ Bits(call.ppu.current_render_address, 5, 9) = 29
    /\ Bits(ppu.current_render_address, 5, 9) = 0
    /\ Bit(ppu.current_render_address, 11)
            # Bit(call.ppu.current_render_address, 11)

\* C34: after a read of STATUS, a first write of d to port 5 sets T's
\* coarse X to d >> 3 and the fine X to d AND 7 and leaves T's bits 14-5; a
\* second write of e sets T's coarse Y to e >> 3 and T's fine Y to e AND 7
\* and leaves T's coarse X and bits 11-10; V is as it was before both, and T
\* is made of e's and d's bits around the nametable bits it had.
C34_ScrollWrites ==
    /\ (Len(ppu_trace) >= 2 /\ ReadOf(Back(1), 2) /\ WriteOf(call, 5)) =>
          /\ Returned
          /\ ppu.canon_render_address
                = 32 * Bits(call.ppu.canon_render_address, 5, 14)
                  + (call.op.data \div 8)
          /\ ppu.fine_scroll_x = call.op.data % 8
          /\ ppu.current_render_address = Back(1).ppu.current_render_address
    /\ (Len(ppu_trace) >= 3 /\ ReadOf(Back(2), 2) /\ WriteOf(Back(1), 5)
           /\ WriteOf(call, 5)) =>
          /\ Returned
          /\ ppu.canon_render_address
                = 4096 * (call.op.data % 8)
                  + 1024 * Bits(Back(2).ppu.canon_render_address, 10, 11)
                  + 32 * (call.op.data \div 8)
                  + (Back(1).op.data \div 8)
          /\ ppu.fine_scroll_x = Back(1).op.data % 8
          /\ ppu.current_render_address = Back(2).ppu.current_render_address

\* T and V were 0x7FFF; after a read of STATUS, 0xA2 and then 0x7D have
\* been written to port 5: T has coarse X 20, coarse Y 15, fine Y 5 and its
\* bits 11-10 still set, the fine X is 2 and V is 0x7FFF.
C34_Witness ==
    /\ Len(ppu_trace) >= 3 /\ Returned
    /\ ReadOf(Back(2), 2)
    /\ Back(2).ppu.canon_render_address = \h7FFF
    /\ WriteOf(Back(1), 5) /\ Back(1).op.data = \hA2
    /\ WriteOf(call, 5) /\ call.op.data = \h7D
    /\ Bits(ppu.canon_render_address, 0, 4) = 20
    /\ Bits(ppu.canon_render_address, 5, 9) = 15
    /\ Bits(ppu.canon_render_address, 12, 14) = 5
    /\ Bits(ppu.canon_render_address, 10, 11) = 3
    /\ ppu.fine_scroll_x = 2
    /\ ppu.current_render_address = \h7FFF

\* C35: T and V each fit in 15 bits after any sequence of accesses of the
\* CPU to the PPU ports and of steps of the renderer.
C35_FifteenBitsAsStated ==
    /\ ppu.canon_render_address < \h8000
    /\ ppu.current_render_address < \h8000

\* C35, what holds: T fits in 15 bits.  An access to port 7 adds its stride
\* to V in 16 bits, so V leaves the 15 bits when it was at their top; every
\* other call that finds V in 15 bits leaves it there, and the end of a
\* scanline brings it back into them.
C35_DataAccessLeaves15Bits ==
    /\ ppu.canon_render_address < \h8000
    /\ ppu.current_render_address < 65536
    /\ (Called /\ DataAccess(call)) =>
            /\ Returned
            /\ ppu.current_render_address
                    = (call.ppu.current_render_address
                       + (IF Bit(call.ppu.register_control, 2) = 0
                          THEN 1 ELSE 32)) % 65536
    /\ (Called /\ ~DataAccess(call)
            /\ call.ppu.current_render_address < \h8000) =>
            ppu.current_render_address < \h8000
    /\ (Called /\ call.op.kind = "end_of_scanline") =>
            ppu.current_render_address < \h8000

\* V was 0x7FFF and T fitted in 15 bits; an access to port 7 has returned,
\* and V is 0x8000.
C35_Witness ==
    /\ Called /\ DataAccess(call) /\ Returned
    /\ call.ppu.current_render_address = \h7FFF
    /\ ppu.current_render_address = \h8000
    /\ ppu.canon_render_address = \h7FFF

\* A scanline has been rasterized and ended from a V above 0x7FFF: V is
\* in 15 bits again.
C35_WitnessScanline ==
    /\ Len(ppu_trace) >= 2 /\ call.op.kind = "end_of_scanline" /\ Returned
    /\ Back(1).op.kind = "rasterize"
    /\ Back(1).ppu.current_render_address >= \h8000
    /\ ppu.current_render_address < \h8000

-----------------------------------------------------------------------------
(* Further properties of the CPU: addressing modes, LDX, BIT. *)

\* The opcodes with (Zero-page,X) addressing.
XIndirectOpcodes == {\h01, \h21, \h41, \h61, \h81, \hA1, \hC1, \hE1}

\* The zero-page address (p + X) mod 256 of the pointer that the
\* instruction of trace entry t uses.
PointerAt(t) == (Operand(t) + t.x) % 256

\* The instruction of trace entry t, one with (Zero-page,X) addressing,
\* has computed an address: LDA has loaded A from it, STA has written A to
\* it.
Addressed(t, address) ==
    /\ am_new("ZeroPageXIndexedIndirect", Fetched(t)).am.address = address
    /\ t.opcode = \hA1 => a = read_byte(t.ram, address)
    /\ t.opcode = \h81 => t.writes = << <<address, t.a>> >>

\* C36: with (Zero-page,X) addressing both bytes of the pointer are read
\* from the zero page, the low byte at (p + X) mod 256 and the high byte at
\* (p + X + 1) mod 256: at 0x0000 when the low byte is at 0x00FF.
C36_PointerInZeroPageAsStated ==
    (Completed /\ last.opcode \in XIndirectOpcodes) =>
        Addressed(last,
            read_byte(last.ram, PointerAt(last))
            + 256 * read_byte(last.ram, (PointerAt(last) + 1) % 256))

\* C36, what holds: the high byte is read at the address after the low
\* byte's, which is 0x0100 when the low byte is at 0x00FF.
C36_PointerHighByteNextAddress ==
    (Completed /\ last.opcode \in XIndirectOpcodes) =>
        Addressed(last,
            read_byte(last.ram, PointerAt(last))
            + 256 * read_byte(last.ram, PointerAt(last) + 1))

\* LDA (0xFE,X) with X = 1 has run: the low byte of the pointer is at
\* 0x00FF, 0x0000 and 0x0100 hold different bytes, and A is the byte at the
\* address whose high byte is the one at 0x0100.
C36_Witness ==
    /\ Completed /\ last.opcode = \hA1
    /\ Operand(last) = \hFE /\ last.x = 1
    /\ read_byte(last.ram, \h0000) # read_byte(last.ram, \h0100)
    /\ a = read_byte(last.ram,
                     read_byte(last.ram, \h00FF)
                     + 256 * read_byte(last.ram, \h0100))
    /\ a # read_byte(last.ram,
                     read_byte(last.ram, \h00FF)
                     + 256 * read_byte(last.ram, \h0000))

\* STA (0xFE,X) with X = 0x81 has run: the sum wraps to 0x7F, both bytes
\* of the pointer are read inside the zero page, and A is written to the
\* address they hold.
C36_WitnessInside ==
    /\ Completed /\ last.opcode = \h81
    /\ Operand(last) = \hFE /\ last.x = \h81
    /\ PointerAt(last) = \h7F
    /\ last.writes = << <<\h2005, last.a>> >>

\* The 16-bit operand of the instruction in trace entry t.
Operand16(t) ==
    read_byte(t.ram, (t.pc + 1) % 65536)
    + 256 * read_byte(t.ram, (t.pc + 2) % 65536)

\* The flags N and Z in p are those of the byte b.
NZFrom(b) == Bit(p, 7) = Bit(b, 7) /\ (Bit(p, 1) = 1 <=> b = 0)

\* C37: opcode 0xBE loads X with the byte at (abs + Y) mod 65536, sets N
\* and Z from it and leaves Y and A as they were.
C37_LdxAbsoluteYAsStated ==
    (Completed /\ last.opcode = \hBE) =>
        /\ x = read_byte(last.ram, (Operand16(last) + last.y) % 65536)
        /\ NZFrom(x)
        /\ y = last.y /\ a = last.a

\* C37, what holds: opcode 0xBE loads Y with the byte at (abs + X) mod
\* 65536 and sets N and Z from it; X, A, S, the other flags and the memory
\* are as they were, and PC is behind the three bytes.
C37_OpcodeBELoadsY ==
    (Stepped /\ last.opcode = \hBE) =>
        /\ Completed
        /\ y = read_byte(last.ram, (Operand16(last) + last.x) % 65536)
        /\ NZFrom(y)
        /\ \A k \in {0, 2, 3, 4, 5, 6} : Bit(p, k) = Bit(last.p, k)
        /\ x = last.x /\ a = last.a /\ s = last.s
        /\ pc = (last.pc + 3) % 65536
        /\ ram = last.ram /\ last.writes = <<>>

\* Opcode 0xBE with the address 0xFFF0 has run from X = 0x20 and Y = 0x05:
\* Y is the byte at 0x0010, which is not the byte at 0xFFF5, and X is
\* still 0x20.
C37_Witness ==
    /\ Completed /\ last.opcode = \hBE /\ Operand16(last) = \hFFF0
    /\ last.x = \h20 /\ last.y = \h05
    /\ y = read_byte(last.ram, \h0010)
    /\ y # read_byte(last.ram, \hFFF5)
    /\ x = \h20

\* The byte M that the BIT of trace entry t tests.
BitOperand(t) ==
    read_byte(t.ram, IF t.opcode = \h24 THEN Operand(t) ELSE Operand16(t))

\* What BIT does besides Z: N and V are bits 7 and 6 of M; A, X, Y, S, the
\* memory and the flags C, I, D, B and bit 5 are as they were.
BitTestLeaves(t) ==
    /\ Bit(p, 7) = Bit(BitOperand(t), 7)
    /\ Bit(p, 6) = Bit(BitOperand(t), 6)
    /\ \A k \in {0, 2, 3, 4, 5} : Bit(p, k) = Bit(t.p, k)
    /\ a = t.a /\ x = t.x /\ y = t.y /\ s = t.s
    /\ ram = t.ram /\ t.writes = <<>>

\* C38: BIT (0x24, 0x2C) sets Z iff A AND M is 0, copies bits 7 and 6 of M
\* into N and V and leaves A, the memory and the flags C, I, D and bit 5.
C38_BitAsStated ==
    (Completed /\ last.opcode \in {\h24, \h2C}) =>
        /\ Bit(p, 1) = 1 <=> BitAnd(last.a, BitOperand(last)) = 0
        /\ BitTestLeaves(last)

\* C38, what holds: BIT sets Z iff M equals A; the rest is as stated.
C38_BitZeroWhenEqual ==
    (Stepped /\ last.opcode \in {\h24, \h2C}) =>
        /\ Completed
        /\ Bit(p, 1) = 1 <=> BitOperand(last) = last.a
        /\ BitTestLeaves(last)

\* BIT zp has run with A = 0x0F and M = 0xF0, whose AND is 0, from Z set:
\* Z is clear, N and V are set.
C38_Witness ==
    /\ Completed /\ last.opcode = \h24
    /\ last.a = \h0F /\ BitOperand(last) = \hF0
    /\ Bit(last.p, 1) = 1
    /\ Bit(p, 1) = 0 /\ Bit(p, 7) = 1 /\ Bit(p, 6) = 1

\* BIT abs has run with A = M = 0x81, whose AND is not 0, from Z clear: Z
\* is set.
C38_WitnessEqual ==
    /\ Completed /\ last.opcode = \h2C
    /\ last.a = \h81 /\ BitOperand(last) = \h81
    /\ Bit(last.p, 1) = 0
    /\ Bit(p, 1) = 1

(* Further properties of the renderer: the pixel loop and the frame. *)

\* The devices that the call of trace entry t started from.
DeviceBefore(t) ==
    [ram |-> t.ram, ppu |-> t.ppu, apu |-> t.apu, cartridge |-> t.cartridge,
     controllers |-> t.controllers, nmi_signals |-> <<>>,
     result |-> 0, pixels |-> <<>>, panicked |-> "none"]

\* The pixels from..to of a scanline made one by one from the devices m:
\* the devices behind them and the number of pixels over which bit 10 of V
\* changed.
RECURSIVE PixelWalk(_, _, _, _, _)
PixelWalk(m, sprites, line, from, to) ==
    IF from = to
    THEN With(render_pixel(m, sprites, from, line), LAMBDA r :
            [m |-> r,
             flips |-> IF Bit(r.ppu.current_render_address, 10)
                          # Bit(m.ppu.current_render_address, 10)
                       THEN 1 ELSE 0])
    ELSE With(PixelWalk(m, sprites, line, from, (from + to) \div 2),
              LAMBDA h :
         IF h.flips < 0 THEN h
         ELSE With(PixelWalk(h.m, sprites, line,
                             (from + to) \div 2 + 1, to),
                   LAMBDA g : [m |-> g.m, flips |-> h.flips + g.flips]))

\* C39: the 256 pixels of a scanline leave the fine X what it was at the
\* start and V's coarse X what it was, with bit 10 of V inverted, which
\* happened over exactly one of the pixels; V's fine Y, coarse Y and bit 11
\* are what they were.
C39_PixelLoopHorizontal ==
    (Called /\ call.op.kind = "rasterize" /\ Returned) =>
        With(call.ppu.current_render_address, LAMBDA b :
        With(ppu.current_render_address, LAMBDA c :
            /\ ppu.fine_scroll_x = call.ppu.fine_scroll_x
            /\ Bits(c, 0, 4) = Bits(b, 0, 4)
            /\ Bit(c, 10) = 1 - Bit(b, 10)
            /\ PixelWalk(DeviceBefore(call),
                         sprites_on_scanline(call.ppu, call.op.address),
                         call.op.address, 0, 255).flips = 1
            /\ Bits(c, 12, 14) = Bits(b, 12, 14)
            /\ Bits(c, 5, 9) = Bits(b, 5, 9)
            /\ Bit(c, 11) = Bit(b, 11)))

\* A scanline has been rasterized from V = 0x5D3E (fine Y 5, bit 11 set,
\* bit 10 set, coarse Y 9, coarse X 30) and fine X 3: V is 0x593E and the
\* fine X is 3.
C39_Witness ==
    /\ Called /\ call.op.kind = "rasterize" /\ Returned
    /\ call.ppu.current_render_address = \h5D3E
    /\ call.ppu.fine_scroll_x = 3
    /\ ppu.current_render_address = \h593E
    /\ ppu.fine_scroll_x = 3

\* A scanline has been rasterized from V = 0x001F and fine X 7: V is
\* 0x041F and the fine X is 7.
C39_WitnessEdge ==
    /\ Called /\ call.op.kind = "rasterize" /\ Returned
    /\ call.ppu.current_render_address = \h001F
    /\ call.ppu.fine_scroll_x = 7
    /\ ppu.current_render_address = \h041F
    /\ ppu.fine_scroll_x = 7

\* The call before the last was of one of the kinds.
Follows(kinds) ==
    /\ Len(ppu_trace) >= 2
    /\ Back(1).op.kind \in kinds

C40_WitnessSecondScanline ==
    /\ Len(ppu_trace) >= 5
    /\ Back(3).op.kind = "start_of_frame"
    /\ Horizontal(Back(2).ppu.current_render_address)
       # Horizontal(Back(2).ppu.canon_render_address)
    /\ Follows({"end_of_scanline"})
    /\ call.op.kind = "rasterize" /\ call.op.address = 1 /\ Returned
    /\ Horizontal(call.ppu.current_render_address)
       = Horizontal(call.ppu.canon_render_address)

=============================================================================
